---- MODULE Spec2Model ----
(***************************************************************************)
(* go-test-watcher: the debounce / coalesce / execute pipeline of          *)
(* watcher.TestWatcher (Watch, RunTests, BuildTestArgs and the helpers     *)
(* they call), as a state machine.                                         *)
(*                                                                         *)
(* Strings of the program (paths, test names, go-test selectors) are       *)
(* sequences of one-character strings, so that filepath.Dir, filepath.Rel, *)
(* filepath.Ext and strings.Split are computed and not assumed.            *)
(***************************************************************************)
EXTENDS Integers, Sequences, FiniteSets, TLC

(***************************************************************************)
(* Bounds of the model.                                                    *)
(***************************************************************************)
\* items (events and errors) the notification source delivers to Watch
MaxReceived == 4
\* debounce-timer goroutines that can be inside RunTests at the same time
MaxTimerRuns == 2
\* calls of RunTests whose verdict is kept for comparison
MaxCalls == 2
\* changes of a file, calls of Add and events received that the history keeps
MaxHistory == 4

(***************************************************************************)
(* Strings.                                                                *)
(***************************************************************************)
Separator == "/"

\* the 1-based index of the last c in s, 0 when there is none
LastIndex(s, c) ==
    IF \E i \in 1..Len(s) : s[i] = c
    THEN CHOOSE i \in 1..Len(s) : s[i] = c /\ \A j \in (i+1)..Len(s) : s[j] # c
    ELSE 0

\* the 1-based index of the first c in s, 0 when there is none
FirstIndex(s, c) ==
    IF \E i \in 1..Len(s) : s[i] = c
    THEN CHOOSE i \in 1..Len(s) : s[i] = c /\ \A j \in 1..(i-1) : s[j] # c
    ELSE 0

\* strings.Split(s, sep): the fields between the separators, empty ones kept
RECURSIVE Split(_, _)
Split(s, sep) ==
    LET i == FirstIndex(s, sep)
    IN  IF i = 0 THEN << s >>
        ELSE << SubSeq(s, 1, i - 1) >> \o Split(SubSeq(s, i + 1, Len(s)), sep)

\* strings.Join(elems, sep)
RECURSIVE Join(_, _)
Join(elems, sep) ==
    IF elems = << >> THEN << >>
    ELSE IF Len(elems) = 1 THEN elems[1]
    ELSE elems[1] \o << sep >> \o Join(Tail(elems), sep)

\* strings.ReplaceAll(s, old, new) for a one-character old
ReplaceAll(s, old, new) == [i \in 1..Len(s) |-> IF s[i] = old THEN new ELSE s[i]]

\* the elements of a path that filepath.Clean keeps: "" and "." are dropped
RECURSIVE CleanElems(_, _, _)
CleanElems(elems, rooted, acc) ==
    IF elems = << >> THEN acc
    ELSE LET e == Head(elems)
             rest == Tail(elems)
         IN  IF e = << >> \/ e = << "." >> THEN CleanElems(rest, rooted, acc)
             ELSE IF e = << ".", "." >>
             THEN IF acc # << >> /\ acc[Len(acc)] # << ".", "." >>
                  THEN CleanElems(rest, rooted, SubSeq(acc, 1, Len(acc) - 1))
                  ELSE IF rooted THEN CleanElems(rest, rooted, acc)
                  ELSE CleanElems(rest, rooted, Append(acc, e))
             ELSE CleanElems(rest, rooted, Append(acc, e))

IsRooted(path) == Len(path) > 0 /\ path[1] = Separator

\* filepath.Clean
Clean(path) ==
    LET rooted == IsRooted(path)
        body == Join(CleanElems(Split(path, Separator), rooted, << >>), Separator)
    IN  IF rooted THEN << Separator >> \o body
        ELSE IF body = << >> THEN << "." >> ELSE body

\* filepath.Dir: all but the last element of path, cleaned
Dir(path) == Clean(SubSeq(path, 1, LastIndex(path, Separator)))

\* filepath.Ext: the suffix of the last element from its last dot on
Ext(path) ==
    LET b == SubSeq(path, LastIndex(path, Separator) + 1, Len(path))
        d == LastIndex(b, ".")
    IN  IF d = 0 THEN << >> ELSE SubSeq(b, d, Len(b))

\* the length of the longest common prefix of two element lists
RECURSIVE CommonElems(_, _)
CommonElems(bs, ts) ==
    IF bs = << >> \/ ts = << >> \/ Head(bs) # Head(ts) THEN 0
    ELSE 1 + CommonElems(Tail(bs), Tail(ts))

\* filepath.Rel(basepath, targpath): [err, path]
Rel(basepath, targpath) ==
    LET base == Clean(basepath)
        targ == Clean(targpath)
        b == IF base = << "." >> THEN << >> ELSE base
        bs == CleanElems(Split(b, Separator), IsRooted(b), << >>)
        ts == CleanElems(Split(targ, Separator), IsRooted(targ), << >>)
        k == CommonElems(bs, ts)
        ups == [i \in 1..(Len(bs) - k) |-> << ".", "." >>]
    IN  IF targ = base THEN [err |-> FALSE, path |-> << "." >>]
        ELSE IF IsRooted(b) # IsRooted(targ) THEN [err |-> TRUE, path |-> << >>]
        ELSE IF k < Len(bs) /\ bs[k + 1] = << ".", "." >>
        THEN [err |-> TRUE, path |-> << >>]
        ELSE [err |-> FALSE,
              path |-> Join(ups \o SubSeq(ts, k + 1, Len(ts)), Separator)]


(***************************************************************************)
(* The data of the model: one watch root, a few files under it, the kinds  *)
(* of fsnotify events, and the test names a client can record as failed.   *)
(***************************************************************************)
\* TestWatcher.watchDir
watchDir == << "/", "r" >>

FileAX == << "/", "r", "/", "a", "/", "x", ".", "g", "o" >>
FileAY == << "/", "r", "/", "a", "/", "y", ".", "g", "o" >>
FileBY == << "/", "r", "/", "b", "/", "y", ".", "g", "o" >>
FileRoot == << "/", "r", "/", "m", ".", "g", "o" >>
FileTxt == << "/", "r", "/", "a", "/", "n", ".", "t", "x", "t" >>
\* a file that is not under the watch root
FileOut == << "/", "o", "/", "z", ".", "g", "o" >>

\* the directories and files that can be under the watch root when Watch
\* walks it, in the order filepath.Walk meets them: a directory before what
\* it holds, the names of a directory in lexical order
DirGit == << "/", "r", "/", ".", "g" >>
DirHooks == << "/", "r", "/", ".", "g", "/", "h" >>
DirA == << "/", "r", "/", "a" >>
DirSub == << "/", "r", "/", "a", "/", "s" >>
DirB == << "/", "r", "/", "b" >>
WalkOrder == << watchDir, DirGit, DirHooks, DirA, DirSub, FileAX, DirB, FileBY,
               FileRoot >>
TreeDirs == { watchDir, DirGit, DirHooks, DirA, DirSub, DirB }
Universe == { WalkOrder[i] : i \in 1..Len(WalkOrder) }
ParentOf == [ p \in Universe \ { watchDir } |-> Dir(p) ]

\* os.FileInfo.Name: the last element of the path
Base(path) == SubSeq(path, LastIndex(path, Separator) + 1, Len(path))

\* path is in the directory dir, at any depth
IsUnder(path, dir) ==
    /\ Len(path) > Len(dir) + 1
    /\ SubSeq(path, 1, Len(dir)) = dir
    /\ path[Len(dir) + 1] = Separator

\* the forms in which the watch root can be given to NewTestWatcher (the -r
\* flag): an absolute path, the current directory as ".", and a directory
\* whose own name begins with a dot.  In the paths of the walk watchDir stands
\* for the directory the root designates.
RootDot == << "." >>
RootHidden == << "/", "x", "/", ".", "h" >>
RootForms == { watchDir, RootDot, RootHidden }

\* the trees Watch can find: the root as it was given, what is there, the
\* directories that the notification source refuses to add, those that
\* cannot be read
AtMostOne(S) == { {} } \cup { { x } : x \in S }
Trees ==
    { [ root |-> watchDir, entries |-> t, addFails |-> f, readFails |-> u ] :
        t \in { t \in SUBSET Universe :
                  watchDir \in t /\ \A p \in t \ { watchDir } : ParentOf[p] \in t },
        f \in AtMostOne(TreeDirs), u \in AtMostOne(TreeDirs) }
DefaultTree == [ root |-> watchDir, entries |-> Universe, addFails |-> {},
                 readFails |-> {} ]

\* the trees under each form of the root
RootTrees == { [ t EXCEPT !.root = r ] : t \in Trees, r \in RootForms }

\* info.Name() of a path of the walk: for the root os.Lstat takes it from the
\* path that was given
Name(path, t) == IF path = watchDir THEN Base(t.root) ELSE Base(path)
NoErr == [ kind |-> "nil", path |-> << >> ]

\* the files a client can pass to AddChangedFile
Files == { FileAX, FileAY, FileBY, FileRoot, FileOut }

\* the names the fsnotify events of the model carry
EventNames == { FileAX, FileBY, FileTxt }

\* fsnotify.Op is a bit set; an event carries one or more of these
EventOps == { {"Write"}, {"Create"}, {"Remove"}, {"Rename"}, {"Chmod"},
              {"Write", "Chmod"} }
Events == [ Name : EventNames, Op : EventOps ]

TestAX == << "a", "/", "T", "X" >>
TestBY == << "b", "/", "T", "Y" >>
TestNames == { TestAX, TestBY }

\* TestWatcher.debounceDelay, in clock ticks
debounceDelay == 2

\* TestWatcher.packageDependencies: made empty by NewTestWatcher, never written
packageDependencies == [ pkg \in {} |-> << >> ]

(***************************************************************************)
(* What `go test` can print and return, as lines of fields.                *)
(***************************************************************************)
OutOk == [ err |-> FALSE,
           text |-> << << "===", "RUN", "TestX" >>,
                       << "---", "PASS:", "TestX", "(0.00s)" >>,
                       << "PASS" >>,
                       << "ok", "pkg/a", "0.01s" >> >> ]
OutFail == [ err |-> TRUE,
             text |-> << << "===", "RUN", "TestX" >>,
                         << "---", "FAIL:", "TestX", "(0.00s)" >>,
                         << "FAIL" >>,
                         << "FAIL", "pkg/a", "0.01s" >> >> ]
OutBuild == [ err |-> TRUE,
              text |-> << << "#", "pkg/a" >>,
                          << "FAIL", "pkg/a", "[build", "failed]" >> >> ]
OutNoMarker == [ err |-> TRUE,
                 text |-> << << "no", "Go", "files", "in", "/r" >> >> ]
Outputs == { OutOk, OutFail, OutBuild, OutNoMarker }

\* more of what `go test` can print, for the verdict of RunTests
OutFailTwo == [ err |-> TRUE,
                text |-> << << "===", "RUN", "TestX" >>,
                            << "x_test.go:9:", "want", "1" >>,
                            << "---", "FAIL:", "TestX", "(0.00s)" >>,
                            << "===", "RUN", "TestY" >>,
                            << "---", "FAIL:", "TestY", "(0.00s)" >>,
                            << "===", "RUN", "TestZ" >>,
                            << "---", "PASS:", "TestZ", "(0.00s)" >>,
                            << "FAIL" >>,
                            << "FAIL", "pkg/a", "0.01s" >> >> ]
OutBuildAndFail == [ err |-> TRUE,
                     text |-> << << "===", "RUN", "TestX" >>,
                                 << "---", "FAIL:", "TestX", "(0.00s)" >>,
                                 << "FAIL", "pkg/a", "0.01s" >>,
                                 << "FAIL", "pkg/b", "[build", "failed]" >> >> ]
OutCompileLogged == [ err |-> FALSE,
                      text |-> << << "===", "RUN", "TestX" >>,
                                  << "x_test.go:9:", "input", "does", "not", "compile" >>,
                                  << "---", "PASS:", "TestX", "(0.00s)" >>,
                                  << "PASS" >>,
                                  << "ok", "pkg/a", "0.01s" >> >> ]
OutBuildLogged == [ err |-> FALSE,
                    text |-> << << "===", "RUN", "TestX" >>,
                                << "x_test.go:9:", "build", "failed", "as", "wanted" >>,
                                << "---", "PASS:", "TestX", "(0.00s)" >>,
                                << "PASS" >>,
                                << "ok", "pkg/a", "0.01s" >> >> ]
OutFailLogged == [ err |-> FALSE,
                   text |-> << << "===", "RUN", "TestX" >>,
                               << "x_test.go:9:", "got", "---", "FAIL", "line" >>,
                               << "---", "PASS:", "TestX", "(0.00s)" >>,
                               << "PASS" >>,
                               << "ok", "pkg/a", "0.01s" >> >> ]
OutCover == [ err |-> FALSE,
              text |-> << << "PASS" >>,
                          << "coverage:", "80.0%", "of", "statements" >>,
                          << "ok", "pkg/a", "0.01s", "coverage:", "80.0%", "of",
                             "statements" >> >> ]
OutCached == [ err |-> FALSE,
               text |-> << << "ok", "pkg/a", "(cached)" >> >> ]
OutNoTests == [ err |-> FALSE,
                text |-> << << "?", "pkg/a", "[no", "test", "files]" >> >> ]
\* a failing test that has printed an empty line
OutFailBlank == [ err |-> TRUE,
                  text |-> << << "===", "RUN", "TestX" >>,
                              << >>,
                              << "x_test.go:9:", "want", "1" >>,
                              << "---", "FAIL:", "TestX", "(0.00s)" >>,
                              << "FAIL" >>,
                              << "FAIL", "pkg/a", "0.01s" >> >> ]
VerdictInputs == Outputs \cup { OutFailTwo, OutBuildAndFail, OutCompileLogged,
                                OutBuildLogged, OutFailLogged, OutCover, OutCached,
                                OutNoTests, OutFailBlank }

\* strings.Contains(outputStr, "build failed") on fields
ContainsBuildFailed(text) ==
    \E l \in 1..Len(text) : \E i \in 1..(Len(text[l]) - 1) :
        text[l][i] \in { "build", "[build" } /\ text[l][i + 1] \in { "failed", "failed]" }

\* strings.Contains(outputStr, "does not compile") on fields
ContainsDoesNotCompile(text) ==
    \E l \in 1..Len(text) : \E i \in 1..(Len(text[l]) - 2) :
        text[l][i] = "does" /\ text[l][i + 1] = "not" /\ text[l][i + 2] = "compile"

\* strings.Count(outputStr, "--- FAIL") on fields
CountFail(text) ==
    Cardinality({ p \in UNION { { << l, i >> : i \in 1..(Len(text[l]) - 1) } :
                                  l \in 1..Len(text) } :
        /\ text[p[1]][p[2]] = "---"
        /\ text[p[1]][p[2] + 1] \in { "FAIL", "FAIL:" } })

\* Classify that looks at the "--- FAIL" markers before the build failure
ClassifyTestsFirst(out) ==
    IF CountFail(out.text) > 0 THEN "TestFailures"
    ELSE IF (out.err /\ ContainsBuildFailed(out.text))
            \/ ContainsDoesNotCompile(out.text)
    THEN "BuildFailure"
    ELSE IF out.err THEN "TestFailures"
    ELSE "Success"

\* Classify that takes the exit status alone for a sign of failed tests
ClassifyByExit(out) ==
    IF (out.err /\ ContainsBuildFailed(out.text)) \/ ContainsDoesNotCompile(out.text)
    THEN "BuildFailure"
    ELSE IF out.err THEN "TestFailures"
    ELSE "Success"

\* Classify that takes a failing exit status with no "--- FAIL" marker and
\* no build-failure phrase for a success
ClassifyZeroFailsPass(out) ==
    IF (out.err /\ ContainsBuildFailed(out.text)) \/ ContainsDoesNotCompile(out.text)
    THEN "BuildFailure"
    ELSE IF CountFail(out.text) > 0 THEN "TestFailures"
    ELSE "Success"

\* the branch RunTests takes on the captured output and the exit status
Classify(out) ==
    IF (out.err /\ ContainsBuildFailed(out.text)) \/ ContainsDoesNotCompile(out.text)
    THEN "BuildFailure"
    ELSE IF out.err \/ CountFail(out.text) > 0 THEN "TestFailures"
    ELSE "Success"

\* strings.Contains(line, a + " " + b) on fields
ContainsPair(line, a, b) ==
    \E i \in 1..(Len(line) - 1) : line[i] = a /\ line[i + 1] = b

\* strings.HasPrefix(line, word), for a line that is not indented
HasPrefix(line, word) == Len(line) > 0 /\ line[1] = word

\* the first pass of extractTestSections over the lines from i on.  st is
\* sectionMap, currentTest ("" for none), currentLines and inTestSection
RECURSIVE CollectSections(_, _, _)
CollectSections(lines, i, st) ==
    IF i > Len(lines)
    THEN IF st.inTestSection /\ st.currentTest # ""
         THEN (st.currentTest :> st.currentLines) @@ st.sectionMap
         ELSE st.sectionMap
    ELSE LET line == lines[i]
             added == Append(st.currentLines, line)
         IN  IF ContainsPair(line, "===", "RUN")
             THEN CollectSections(lines, i + 1,
                    [ sectionMap |-> IF st.inTestSection /\ st.currentTest # ""
                                     THEN (st.currentTest :> st.currentLines)
                                          @@ st.sectionMap
                                     ELSE st.sectionMap,
                      currentTest |-> IF Len(line) >= 3 THEN line[3] ELSE "",
                      currentLines |-> << line >>,
                      inTestSection |-> TRUE ])
             ELSE IF ~ st.inTestSection THEN CollectSections(lines, i + 1, st)
             ELSE IF \/ ContainsPair(line, "---", "FAIL:")
                     \/ ContainsPair(line, "---", "PASS:")
             THEN CollectSections(lines, i + 1,
                    [ st EXCEPT !.currentLines = added,
                                !.sectionMap = IF st.currentTest # ""
                                               THEN (st.currentTest :> added) @@ @
                                               ELSE @ ])
             ELSE IF HasPrefix(line, "FAIL") \/ HasPrefix(line, "ok") \/ line = << >>
             THEN CollectSections(lines, i + 1,
                    [ st EXCEPT !.currentLines = added,
                                !.inTestSection = FALSE,
                                !.currentTest = "" ])
             ELSE CollectSections(lines, i + 1, [ st EXCEPT !.currentLines = added ])

\* the second pass of extractTestSections: the names on the "--- FAIL:" lines
RECURSIVE FailedNames(_, _)
FailedNames(lines, i) ==
    IF i > Len(lines) THEN << >>
    ELSE (IF ContainsPair(lines[i], "---", "FAIL:") /\ Len(lines[i]) >= 3
          THEN << lines[i][3] >> ELSE << >>) \o FailedNames(lines, i + 1)

\* the end of extractTestSections: the sections of the failed tests, in order
RECURSIVE SectionsOf(_, _, _)
SectionsOf(names, i, sectionMap) ==
    IF i > Len(names) THEN << >>
    ELSE (IF names[i] \in DOMAIN sectionMap
          THEN << sectionMap[names[i]] >> ELSE << >>)
         \o SectionsOf(names, i + 1, sectionMap)

\* extractTestSections
extractTestSections(output) ==
    SectionsOf(FailedNames(output, 1), 1,
               CollectSections(output, 1,
                   [ sectionMap |-> << >>, currentTest |-> "",
                     currentLines |-> << >>, inTestSection |-> FALSE ]))

\* the words of the model for which strings.Contains(part, "coverage") holds
CoverageWords == { "coverage:" }
\* the words of the model for which strings.HasSuffix(part, "%") holds
PercentWords == { "80.0%" }

\* handleSuccessfulTests: the duration it shows, "" for none
Duration(lines) ==
    LET ok == { l \in 1..Len(lines) : HasPrefix(lines[l], "ok") /\ Len(lines[l]) >= 3 }
    IN  IF ok = {} THEN "unknown"
        ELSE LET l == CHOOSE l \in ok : \A m \in ok : l <= m
             IN  IF lines[l][3] \in { "(cached)", "()" } THEN "" ELSE lines[l][3]

\* handleSuccessfulTests: the coverage it shows, << >> for none
Coverage(lines, cover) ==
    LET ok == { l \in 1..Len(lines) : HasPrefix(lines[l], "ok") /\ Len(lines[l]) >= 3 }
        parts == IF ok = {} THEN << >>
                 ELSE lines[CHOOSE l \in ok : \A m \in ok : l <= m]
        at == { i \in 1..Len(parts) : parts[i] \in CoverageWords \cup PercentWords }
        onOk == IF cover /\ Len(parts) >= 4 /\ at # {}
                THEN SubSeq(parts, CHOOSE i \in at : \A j \in at : i <= j, Len(parts))
                ELSE << >>
        other == { l \in 1..Len(lines) :
                     \E i \in 1..Len(lines[l]) : lines[l][i] \in CoverageWords }
    IN  IF cover /\ onOk = << >> /\ other # {}
        THEN lines[CHOOSE l \in other : \A m \in other : l <= m]
        ELSE onOk

\* handleSuccessfulTests without its call of ClearFailedTests
handleSuccessfulTestsNoClear(out, cover) ==
    [ shown |-> << "ALL TESTS PASSED" >>,
      detail |-> << Duration(out.text), Coverage(out.text, cover) >>,
      bell |-> 0, err |-> FALSE, cleared |-> FALSE ]

\* the three ways RunTests ends: what it writes (the verdict line and what
\* follows it), the bells it rings, whether the error it returns is not nil,
\* and whether it has called ClearFailedTests
BuildFailed(out) ==
    [ shown |-> << "BUILD FAILED" >>, detail |-> << out.text >>, bell |-> 1,
      err |-> out.err, cleared |-> FALSE ]

handleFailedTests(out) ==
    [ shown |-> << "TEST FAILURES" >>,
      detail |-> IF extractTestSections(out.text) # << >>
                 THEN extractTestSections(out.text) ELSE << out.text >>,
      bell |-> 1, err |-> out.err, cleared |-> FALSE ]

handleSuccessfulTests(out, cover) ==
    [ shown |-> << "ALL TESTS PASSED" >>,
      detail |-> << Duration(out.text), Coverage(out.text, cover) >>,
      bell |-> 0, err |-> FALSE, cleared |-> TRUE ]


(***************************************************************************)
(* The state of the program.                                               *)
(***************************************************************************)
VARIABLES
    wpc,              \* where the goroutine that calls Watch is
    event,            \* the event Watch is handling, NoEvent between two events
    handled,          \* what Watch did with the event it took last
    changedFiles,     \* TestWatcher.changedFiles, the keys of the map
    lastChangedFile,  \* TestWatcher.lastChangedFile
    failedTests,      \* TestWatcher.failedTests, the keys of the map
    withCoverage,     \* TestWatcher.withCoverage
    timers,           \* the time.AfterFunc timers that are armed
    debounceTimer,    \* Watch's debounceTimer: the timer it made last, 0 for nil
    runs,             \* the calls of RunTests: 0 is Watch's own, the others timers'
    received,         \* items Watch took from Events() and Errors()
    stop,             \* whether Stop has closed the notification source
    halt,             \* "no", or how the process ended
    sinceQual,        \* ticks since Watch last recorded a qualifying event
    burst,            \* paths recorded since the last timer fired
    owed,             \* paths recorded that no run has yet read
    vin,              \* what `go test` prints and returns in the runs that are kept
    calls,            \* the runs that are kept: what was recorded, and the verdict
    stopChan,         \* TestWatcher.stopChan of watcher/watcher.go: "open" or "closed"
    stopper,          \* the goroutines that call Stop of watcher/watcher.go
    tree,             \* the directories and files under watchDir when Watch walks
    registered,       \* the directories Watch has added to the notification source
    watchErr,         \* the error that ended the walk of Watch, NoErr for none
    variant,          \* which FileWatcher filenotify.New returned, "none" before
    newErr,           \* whether NewEventWatcher returned an error in New
    fsys,             \* the file system: what os.Stat gives for each name
    watchList,        \* the watch list: PollingWatcher.files, the watches of fsnotify
    mutex,            \* PollingWatcher.mutex: "free", or who holds it
    loop,             \* the goroutine of the source: poll, or watch
    caller,           \* the goroutine that calls Add and Remove
    closer,           \* the goroutines that call Close
    closed,           \* the channels that are closed
    stopped,          \* EventWatcher.stopped
    history           \* of a PollingWatcher: the changes of files, the names added
                      \* and the events the consumer received, in order

\* the TestWatcher
wvars == << wpc, event, handled, changedFiles, lastChangedFile, failedTests, withCoverage,
            timers, debounceTimer, runs, received, stop, halt, sinceQual, burst,
            owed, vin, calls >>

\* the stop signal
kvars == << stopChan, stopper >>

\* the directories
dvars == << tree, registered, watchErr >>

\* the notification source
svars == << variant, newErr, fsys, watchList, mutex, loop, caller, closer, closed,
            stopped, history >>

vars == << wvars, kvars, dvars, svars >>

Goroutines == 0..MaxTimerRuns
TimerGoroutines == 1..MaxTimerRuns

NoEvent == [ Name |-> << >>, Op |-> {} ]
NoArgs == [ flags |-> << >>, sel |-> {} ]
NoOutput == [ err |-> FALSE, text |-> << >> ]
IdleRun == [ pc |-> "idle", burst |-> {}, batch |-> {}, failed |-> {},
             args |-> NoArgs ]

(***************************************************************************)
(* The pure parts of TestWatcher.                                          *)
(***************************************************************************)
\* the default fileFilter of NewTestWatcher
fileFilter(path) == Ext(path) = << ".", "g", "o" >>

\* tw.fileFilter(event.Name), for each name an event of the model carries
FilterAccepts == [ path \in EventNames |-> fileFilter(path) ]

\* event.Has(fsnotify.Write) || event.Has(fsnotify.Create)
Qualifies(op) == "Write" \in op \/ "Create" \in op

\* Accepts without the test of the event's kind
AcceptsAnyKind(e) == FilterAccepts[e.Name]

\* Accepts without the file filter
AcceptsAnyFile(e) == Qualifies(e.Op)

\* the two conditions under which Watch records an event
Accepts(e) == Qualifies(e.Op) /\ FilterAccepts[e.Name]

\* FindAffectedPackages without filepath.Rel: the directory as it is
FindAffectedPackagesNoRel(changedFile) ==
    << ReplaceAll(Dir(changedFile), Separator, "/") >>

\* FindAffectedPackages: the package of the file, then its known dependents
FindAffectedPackages(changedFile) ==
    LET dir == Dir(changedFile)
        rel == Rel(watchDir, dir)
        relDir == IF rel.err THEN dir ELSE rel.path
        pkg == ReplaceAll(relDir, Separator, "/")
    IN  << pkg >> \o (IF pkg \in DOMAIN packageDependencies
                      THEN packageDependencies[pkg] ELSE << >>)

\* FindAffectedPackages of every file of the model, computed once
AffectedPackages == [ f \in Files \cup EventNames |-> FindAffectedPackages(f) ]

\* the elements of a list
Range(seq) == { seq[i] : i \in 1..Len(seq) }

\* the keys BuildTestArgs puts in packagesToTest
PackagesToTest(files, failed) ==
    UNION { Range(AffectedPackages[f]) : f \in files }
    \cup { Split(t, "/")[1] : t \in failed }

\* the selector BuildTestArgs appends for one package
Selector(pkg) ==
    IF pkg = << "." >> \/ pkg = << >> THEN << "." >>
    ELSE << ".", "/" >> \o pkg

AllPackages == << ".", "/", ".", ".", "." >>

\* BuildTestArgs that tests everything as soon as two packages are affected
BuildTestArgsCollapse(files, failed, cover) ==
    [ flags |-> << "test", "-v" >> \o (IF cover THEN << "-cover" >> ELSE << >>),
      sel |-> IF Cardinality(PackagesToTest(files, failed)) # 1 THEN { AllPackages }
              ELSE { Selector(pkg) : pkg \in PackagesToTest(files, failed) } ]

\* BuildTestArgs that tests the root package alone when nothing is recorded
BuildTestArgsRootDefault(files, failed, cover) ==
    [ flags |-> << "test", "-v" >> \o (IF cover THEN << "-cover" >> ELSE << >>),
      sel |-> IF PackagesToTest(files, failed) = {} THEN { << "." >> }
              ELSE { Selector(pkg) : pkg \in PackagesToTest(files, failed) } ]

\* BuildTestArgs: the fixed arguments in order, and the selectors, whose order
\* is that of a map iteration and so is not fixed
BuildTestArgs(files, failed, cover) ==
    [ flags |-> << "test", "-v" >> \o (IF cover THEN << "-cover" >> ELSE << >>),
      sel |-> IF files = {} /\ failed = {} THEN { AllPackages }
              ELSE IF PackagesToTest(files, failed) = {} THEN { AllPackages }
              ELSE { Selector(pkg) : pkg \in PackagesToTest(files, failed) } ]


\* RunTests from its test for a build failure on, without the return that
\* ends the build-failure branch
VerdictFallThrough(out, cover) ==
    LET then == IF out.err \/ CountFail(out.text) > 0
                THEN handleFailedTests(out) ELSE handleSuccessfulTests(out, cover)
    IN  IF Classify(out) = "BuildFailure"
        THEN [ then EXCEPT !.shown = BuildFailed(out).shown \o @,
                           !.detail = BuildFailed(out).detail \o @,
                           !.bell = BuildFailed(out).bell + @ ]
        ELSE then

\* Verdict that shows failures as long as a failed test is recorded
VerdictByFailedSet(out, cover) ==
    IF Classify(out) = "BuildFailure" THEN BuildFailed(out)
    ELSE IF Classify(out) = "TestFailures" \/ failedTests # {}
    THEN handleFailedTests(out)
    ELSE handleSuccessfulTests(out, cover)

\* RunTests from its test for a build failure on
Verdict(out, cover) ==
    IF Classify(out) = "BuildFailure" THEN BuildFailed(out)
    ELSE IF Classify(out) = "TestFailures" THEN handleFailedTests(out)
    ELSE handleSuccessfulTests(out, cover)

\* Verdict for every output and coverage flag of the model, computed once
VerdictOf == [ out \in VerdictInputs |-> [ cover \in BOOLEAN |-> Verdict(out, cover) ] ]


(***************************************************************************)
(* Timers.  time.AfterFunc makes a timer that runs its function in a new   *)
(* goroutine when its delay has passed; Stop disarms a timer whose         *)
(* function has not started and does nothing to one that has.              *)
(***************************************************************************)
\* debounceTimer.Stop(), guarded by debounceTimer != nil
StopTimer(ts, id) == { t \in ts : t.id # id }

\* time.AfterFunc(tw.debounceDelay, ...)
AfterFunc(ts, id) == ts \cup { [ id |-> id, left |-> debounceDelay ] }

\* ResetTimer without the Stop of the timer armed before
ResetTimerNoStop(ts, old, id) == AfterFunc(ts, id)

\* the timers armed after Watch has reset its debounce timer
ResetTimer(ts, old, id) == AfterFunc(StopTimer(ts, old), id)

Min(a, b) == IF a < b THEN a ELSE b

(***************************************************************************)
(* The notification source of package filenotify, before New has made it.  *)
(* The specifications of the TestWatcher take what the source delivers as  *)
(* inputs and leave the source as it is here; SpecSource runs the source.  *)
(***************************************************************************)
\* the names a caller adds to the watch list
WatchNames == { "/r/a", "/r/b" }

\* what os.Stat gives for a name: no such file, another error, or the
\* modification time and size, of which two values are told apart
StatValues == { "s1", "s2" }
FsStates == { "absent", "denied" } \cup StatValues

\* the name whose file another program changes while the source runs
ChangedNames == { "/r/a" }

NotWatched == "none"
Channels == { "stop", "done", "events", "errors", "fsnotify" }
Closers == { 1, 2 }
NoSend == [ chan |-> "none", Name |-> "none", Op |-> "none", info |-> "none" ]
LoopNotStarted == [ pc |-> "none", todo |-> {}, send |-> NoSend ]
CallerIdle == [ pc |-> "idle", op |-> "none", name |-> "none", ret |-> "none" ]

SourceNotMade ==
    /\ variant = "none"
    /\ newErr = FALSE
    /\ fsys = [ n \in WatchNames |-> "s1" ]
    /\ watchList = [ n \in WatchNames |-> NotWatched ]
    /\ mutex = "free"
    /\ loop = LoopNotStarted
    /\ caller = CallerIdle
    /\ closer = [ c \in Closers |-> "idle" ]
    /\ closed = {}
    /\ stopped = FALSE
    /\ history = << >>

\* the function Watch passes to filepath.Walk which descends into a hidden
\* directory instead of skipping it
walkFnNoSkip(path, err, t) ==
    IF err THEN "err"
    ELSE IF path \in TreeDirs
    THEN IF HasPrefix(Name(path, t), ".") THEN "nil"
         ELSE IF path \in t.addFails THEN "addErr" ELSE "added"
    ELSE "nil"

\* the function Watch passes to filepath.Walk: what it returns for a path,
\* "added" for the nil of an Add that has registered the directory
walkFn(path, err, t) ==
    IF err THEN "err"
    ELSE IF path \in TreeDirs
    THEN IF HasPrefix(Name(path, t), ".") THEN "SkipDir"
         ELSE IF path \in t.addFails THEN "addErr" ELSE "added"
    ELSE "nil"

\* filepath.Walk from the i-th path of WalkOrder on: st is what has been
\* registered, the directories skipped, and the error that ended the walk
RECURSIVE WalkFrom(_, _, _)
WalkFrom(i, t, st) ==
    IF i > Len(WalkOrder) \/ st.err # NoErr THEN st
    ELSE IF WalkOrder[i] \notin t.entries
            \/ \E d \in st.skipped : IsUnder(WalkOrder[i], d)
    THEN WalkFrom(i + 1, t, st)
    ELSE WalkFrom(i + 1, t,
           CASE walkFn(WalkOrder[i], WalkOrder[i] \in t.readFails, t) = "err" ->
                  [ st EXCEPT !.err = [ kind |-> "read", path |-> WalkOrder[i] ] ]
             [] walkFn(WalkOrder[i], WalkOrder[i] \in t.readFails, t) = "addErr" ->
                  [ st EXCEPT !.err = [ kind |-> "add", path |-> WalkOrder[i] ] ]
             [] walkFn(WalkOrder[i], WalkOrder[i] \in t.readFails, t) = "SkipDir" ->
                  [ st EXCEPT !.skipped = st.skipped \cup { WalkOrder[i] } ]
             [] walkFn(WalkOrder[i], WalkOrder[i] \in t.readFails, t) = "added" ->
                  [ st EXCEPT !.registered = st.registered \cup { WalkOrder[i] } ]
             [] OTHER -> st)

Walk(t) == WalkFrom(1, t, [ registered |-> {}, skipped |-> {}, err |-> NoErr ])

\* Stop has not been called
Stoppers == { 1, 2 }
StopNotCalled == stopChan = "open" /\ stopper = [ c \in Stoppers |-> "idle" ]

\* Watch has not walked the directories
WalkNotDone == registered = {} /\ watchErr = NoErr

(***************************************************************************)
(* Init: the TestWatcher that NewTestWatcher returns.                      *)
(***************************************************************************)
Init ==
    /\ wpc = "new"
    /\ event = NoEvent
    /\ handled = "none"
    /\ changedFiles = {}
    /\ lastChangedFile = << >>
    /\ failedTests = {}
    /\ withCoverage = FALSE
    /\ timers = {}
    /\ debounceTimer = 0
    /\ runs = [ g \in Goroutines |-> IdleRun ]
    /\ received = 0
    /\ stop = "no"
    /\ halt = "no"
    /\ sinceQual = debounceDelay + 1
    /\ burst = {}
    /\ owed = {}
    /\ vin = NoOutput
    /\ calls = << >>
    /\ tree = DefaultTree
    /\ WalkNotDone
    /\ StopNotCalled
    /\ SourceNotMade

(***************************************************************************)
(* The exported methods, as a client calls them one after the other on a   *)
(* TestWatcher whose Watch it has not called.                              *)
(***************************************************************************)
ClientTurn == halt = "no" /\ wpc = "new" /\ runs[0].pc = "idle"

\* an assignment that replaces the map by one with the file alone
MarkChangedAlone(files, file) == { file }

\* tw.changedFiles[file] = true: the keys of the map after the assignment
MarkChanged(files, file) == files \cup { file }

AddChangedFile(file) ==
    /\ ClientTurn
    /\ changedFiles' = MarkChanged(changedFiles, file)
    /\ lastChangedFile' = file
    /\ UNCHANGED << kvars, dvars, svars >>
    /\ UNCHANGED << wpc, event, handled, failedTests, withCoverage, timers,
                    debounceTimer, runs, received, stop, halt, sinceQual, burst, owed,
                    vin, calls >>

TrackFailedTest(testName) ==
    /\ ClientTurn
    /\ failedTests' = failedTests \cup { testName }
    /\ UNCHANGED << kvars, dvars, svars >>
    /\ UNCHANGED << wpc, event, handled, changedFiles, lastChangedFile, withCoverage,
                    timers, debounceTimer, runs, received, stop, halt, sinceQual, burst,
                    owed, vin, calls >>

ClearFailedTests ==
    /\ ClientTurn
    /\ failedTests' = {}
    /\ UNCHANGED << kvars, dvars, svars >>
    /\ UNCHANGED << wpc, event, handled, changedFiles, lastChangedFile, withCoverage,
                    timers, debounceTimer, runs, received, stop, halt, sinceQual, burst,
                    owed, vin, calls >>

EnableCoverage(enabled) ==
    /\ ClientTurn
    /\ withCoverage' = enabled
    /\ UNCHANGED << kvars, dvars, svars >>
    /\ UNCHANGED << wpc, event, handled, changedFiles, lastChangedFile, failedTests,
                    timers, debounceTimer, runs, received, stop, halt, sinceQual, burst,
                    owed, vin, calls >>

\* the client calls RunTests
CallRunTests ==
    /\ ClientTurn
    /\ runs' = [ runs EXCEPT ![0].pc = "read" ]
    /\ UNCHANGED << kvars, dvars, svars >>
    /\ UNCHANGED << wpc, event, handled, changedFiles, lastChangedFile, failedTests,
                    withCoverage, timers, debounceTimer, received, stop, halt,
                    sinceQual, burst, owed, vin, calls >>

(***************************************************************************)
(* RunTests, in the goroutine g that calls it.                             *)
(***************************************************************************)
\* BuildTestArgs and the "Files changed" list: the reads of the two maps
RunRead(g) ==
    /\ halt = "no"
    /\ runs[g].pc = "read"
    /\ runs' = [ runs EXCEPT ![g].pc = "cmd",
                             ![g].batch = changedFiles,
                             ![g].failed = failedTests,
                             ![g].args = BuildTestArgs(changedFiles, failedTests,
                                                       withCoverage) ]
    /\ owed' = owed \ changedFiles
    /\ UNCHANGED << kvars, dvars, svars >>
    /\ UNCHANGED << wpc, event, handled, changedFiles, lastChangedFile, failedTests,
                    withCoverage, timers, debounceTimer, received, stop, halt,
                    sinceQual, burst, vin, calls >>

\* ClearChangedFiles
ClearChangedFiles(files) == {}

\* cmd.Run() returns with the output out; then ClearChangedFiles and the
\* verdict (a successful run calls ClearFailedTests), and RunTests returns.
\* When it was the call Watch makes on startup, Watch enters its event loop.
RunTail(g, out) ==
    /\ halt = "no"
    /\ runs[g].pc = "cmd"
    /\ changedFiles' = ClearChangedFiles(changedFiles)
    /\ failedTests' = IF VerdictOf[out][withCoverage].cleared THEN {} ELSE failedTests
    /\ runs' = [ runs EXCEPT ![g] = IdleRun ]
    /\ wpc' = IF g = 0 /\ wpc = "startup" THEN "select" ELSE wpc
    /\ UNCHANGED << kvars, dvars, svars >>
    /\ UNCHANGED << event, handled, lastChangedFile, withCoverage, timers,
                    debounceTimer, received, stop, halt, sinceQual, burst, owed, vin >>

\* RunTests from the return of cmd.Run() on, in a run that is not kept
RunFinish(g, out) == RunTail(g, out) /\ calls' = calls

\* RunFinish of a run that is kept: the output is vin
RunFinishKept(g) ==
    /\ Len(calls) < MaxCalls
    /\ RunTail(g, vin)
    /\ calls' = Append(calls, [ hadFiles |-> runs[g].batch # {},
                                hadFailed |-> runs[g].failed # {},
                                verdict |-> VerdictOf[vin][withCoverage] ])

(***************************************************************************)
(* Watch.                                                                  *)
(***************************************************************************)
\* Watch that calls RunTests whatever filepath.Walk returned
WatchStartIgnoresErr ==
    /\ ClientTurn
    /\ registered' = Walk(tree).registered
    /\ watchErr' = Walk(tree).err
    /\ wpc' = "startup"
    /\ runs' = [ runs EXCEPT ![0].pc = "read" ]
    /\ UNCHANGED << kvars, tree, svars >>
    /\ UNCHANGED << event, handled, changedFiles, lastChangedFile, failedTests,
                    withCoverage, timers, debounceTimer, received, stop, halt,
                    sinceQual, burst, owed, vin, calls >>

\* Watch is called: the directories are registered; Watch returns the error
\* of the walk if there is one, and calls RunTests if there is none
WatchStart ==
    /\ ClientTurn
    /\ registered' = Walk(tree).registered
    /\ watchErr' = Walk(tree).err
    /\ IF Walk(tree).err # NoErr
       THEN /\ wpc' = "failed"
            /\ runs' = runs
       ELSE /\ wpc' = "startup"
            /\ runs' = [ runs EXCEPT ![0].pc = "read" ]
    /\ UNCHANGED << kvars, tree, svars >>
    /\ UNCHANGED << event, handled, changedFiles, lastChangedFile, failedTests,
                    withCoverage, timers, debounceTimer, received, stop, halt,
                    sinceQual, burst, owed, vin, calls >>

\* case event, ok := <-tw.watcher.Events(): an event that is not recorded is
\* dropped here; one that is recorded goes on to WatchAdd
WatchRecv(e) ==
    /\ halt = "no" /\ wpc = "select" /\ stop = "no"
    /\ received < MaxReceived
    /\ received' = received + 1
    /\ event' = IF Accepts(e) THEN e ELSE NoEvent
    /\ handled' = IF ~ Qualifies(e.Op) THEN "kind"
                  ELSE IF ~ FilterAccepts[e.Name] THEN "filter" ELSE "recorded"
    /\ wpc' = IF Accepts(e) THEN "add" ELSE "select"
    /\ UNCHANGED << kvars, dvars, svars >>
    /\ UNCHANGED << changedFiles, lastChangedFile, failedTests, withCoverage, timers,
                    debounceTimer, runs, stop, halt, sinceQual, burst, owed, vin,
                    calls >>

\* AddChangedFile, debounceTimer.Stop and time.AfterFunc
WatchAdd ==
    /\ halt = "no" /\ wpc = "add"
    /\ changedFiles' = MarkChanged(changedFiles, event.Name)
    /\ lastChangedFile' = event.Name
    /\ timers' = ResetTimer(timers, debounceTimer, received)
    /\ debounceTimer' = received
    /\ wpc' = "select"
    /\ sinceQual' = 0
    /\ burst' = burst \cup { event.Name }
    /\ owed' = owed \cup { event.Name }
    /\ event' = NoEvent
    /\ UNCHANGED << kvars, dvars, svars >>
    /\ UNCHANGED << handled, failedTests, withCoverage, runs, received, stop, halt, vin,
                    calls >>

\* Watch that returns when it gets an error
WatchErrReturns ==
    /\ halt = "no" /\ wpc = "select" /\ stop = "no"
    /\ received < MaxReceived
    /\ received' = received + 1
    /\ handled' = "error"
    /\ wpc' = "returned"
    /\ UNCHANGED << kvars, dvars, svars >>
    /\ UNCHANGED << event, changedFiles, lastChangedFile, failedTests,
                    withCoverage, timers, debounceTimer, runs, stop, halt, sinceQual,
                    burst, owed, vin, calls >>

\* case err, ok := <-tw.watcher.Errors(): the error is shown
WatchErr ==
    /\ halt = "no" /\ wpc = "select" /\ stop = "no"
    /\ received < MaxReceived
    /\ received' = received + 1
    /\ handled' = "error"
    /\ UNCHANGED << kvars, dvars, svars >>
    /\ UNCHANGED << wpc, event, changedFiles, lastChangedFile, failedTests,
                    withCoverage, timers, debounceTimer, runs, stop, halt, sinceQual,
                    burst, owed, vin, calls >>

\* a receive finds its channel closed: Watch returns nil
WatchClosed ==
    /\ halt = "no" /\ wpc = "select" /\ stop = "closed"
    /\ wpc' = "returned"
    /\ UNCHANGED << kvars, dvars, svars >>
    /\ UNCHANGED << event, handled, changedFiles, lastChangedFile, failedTests,
                    withCoverage, timers, debounceTimer, runs, received, stop, halt,
                    sinceQual, burst, owed, vin, calls >>

(***************************************************************************)
(* The debounce timer's goroutine, and time.                               *)
(***************************************************************************)
\* the slot of the model a new timer goroutine takes
FreeSlot(g) ==
    /\ g \in TimerGoroutines
    /\ runs[g].pc = "idle"
    /\ \A h \in TimerGoroutines : h < g => runs[h].pc # "idle"

\* the timer's delay has passed: its function starts in a new goroutine,
\* shows the name of the file and calls RunTests
TimerFire(t) ==
    /\ halt = "no"
    /\ t \in timers /\ t.left = 0
    /\ \E g \in TimerGoroutines :
         /\ FreeSlot(g)
         /\ runs' = [ runs EXCEPT ![g].pc = "read", ![g].burst = burst ]
    /\ timers' = timers \ { t }
    /\ burst' = {}
    /\ UNCHANGED << kvars, dvars, svars >>
    /\ UNCHANGED << wpc, event, handled, changedFiles, lastChangedFile, failedTests,
                    withCoverage, debounceTimer, received, stop, halt, sinceQual, owed,
                    vin, calls >>

\* one tick of the clock.  A timer whose delay has passed fires before the
\* next tick, and Watch handles an event within a tick.
Tick ==
    /\ halt = "no"
    /\ wpc # "add"
    /\ \A t \in timers : t.left > 0
    /\ timers # {} \/ sinceQual <= debounceDelay
    /\ timers' = { [ t EXCEPT !.left = t.left - 1 ] : t \in timers }
    /\ sinceQual' = Min(sinceQual + 1, debounceDelay + 1)
    /\ UNCHANGED << kvars, dvars, svars >>
    /\ UNCHANGED << wpc, event, handled, changedFiles, lastChangedFile, failedTests,
                    withCoverage, debounceTimer, runs, received, stop, halt, burst,
                    owed, vin, calls >>

(***************************************************************************)
(* Stop, and the Go runtime.                                               *)
(***************************************************************************)
\* Stop: tw.watcher.Close() closes the channels of the notification source
StopClose ==
    /\ halt = "no" /\ stop = "no"
    /\ wpc \notin { "new" }
    /\ stop' = "closed"
    /\ UNCHANGED << kvars, dvars, svars >>
    /\ UNCHANGED << wpc, event, handled, changedFiles, lastChangedFile, failedTests,
                    withCoverage, timers, debounceTimer, runs, received, halt,
                    sinceQual, burst, owed, vin, calls >>

\* Stop: os.Exit(0)
StopExit ==
    /\ halt = "no" /\ stop = "closed"
    /\ halt' = "exit"
    /\ UNCHANGED << kvars, dvars, svars >>
    /\ UNCHANGED << wpc, event, handled, changedFiles, lastChangedFile, failedTests,
                    withCoverage, timers, debounceTimer, runs, received, stop,
                    sinceQual, burst, owed, vin, calls >>

\* Watch writes the changedFiles map while a timer's goroutine iterates over
\* it, with nothing ordering the two: the Go runtime may end the process with
\* "fatal error: concurrent map iteration and map write"
FatalMapRace ==
    /\ halt = "no"
    /\ wpc = "add"
    /\ \E g \in TimerGoroutines : runs[g].pc = "read"
    /\ halt' = "fatal"
    /\ UNCHANGED << kvars, dvars, svars >>
    /\ UNCHANGED << wpc, event, handled, changedFiles, lastChangedFile, failedTests,
                    withCoverage, timers, debounceTimer, runs, received, stop,
                    sinceQual, burst, owed, vin, calls >>

Next ==
    \/ WatchStart
    \/ \E g \in Goroutines : RunRead(g)
    \/ \E g \in Goroutines, out \in Outputs : RunFinish(g, out)
    \/ \E e \in Events : WatchRecv(e)
    \/ WatchAdd
    \/ WatchErr
    \/ \E t \in timers : TimerFire(t)
    \/ Tick
    \/ FatalMapRace

\* Watch on a TestWatcher as NewTestWatcher made it, until Stop is called
Spec == Init /\ [][Next]_vars

NextStop ==
    \/ Next
    \/ StopClose
    \/ WatchClosed
    \/ StopExit

\* the same, with Stop called from another goroutine at any moment
SpecStop == Init /\ [][NextStop]_vars

(***************************************************************************)
(* Watch and Stop of watcher/watcher.go, which has a stop channel; its      *)
(* RunTests tests ./... each time, as RunRead does with nothing recorded.  *)
(***************************************************************************)
\* case event, ok := <-tw.watcher.Events: the timer is reset for an event that
\* qualifies and passes the filter
LoopEvent(e) ==
    /\ halt = "no" /\ wpc = "select" /\ stop = "no"
    /\ received < MaxReceived
    /\ received' = received + 1
    /\ timers' = IF Accepts(e) THEN ResetTimer(timers, debounceTimer, received + 1)
                 ELSE timers
    /\ debounceTimer' = IF Accepts(e) THEN received + 1 ELSE debounceTimer
    /\ UNCHANGED << kvars, dvars, svars >>
    /\ UNCHANGED << wpc, event, handled, changedFiles, lastChangedFile, failedTests,
                    withCoverage, runs, stop, halt, sinceQual, burst, owed, vin,
                    calls >>

\* case err, ok := <-tw.watcher.Errors: the error is shown
LoopError ==
    /\ halt = "no" /\ wpc = "select" /\ stop = "no"
    /\ received < MaxReceived
    /\ received' = received + 1
    /\ handled' = "error"
    /\ UNCHANGED << kvars, dvars, svars >>
    /\ UNCHANGED << wpc, event, changedFiles, lastChangedFile, failedTests,
                    withCoverage, timers, debounceTimer, runs, stop, halt, sinceQual,
                    burst, owed, vin, calls >>

\* a select without the case of the stop channel: the closed channel is seen
\* and the loop goes round
LoopStopIgnored ==
    /\ halt = "no" /\ wpc = "select" /\ stopChan = "closed"
    /\ UNCHANGED vars

\* case <-tw.stopChan: Watch returns nil
LoopStop ==
    /\ halt = "no" /\ wpc = "select" /\ stopChan = "closed"
    /\ wpc' = "returned"
    /\ UNCHANGED << kvars, dvars, svars >>
    /\ UNCHANGED << event, handled, changedFiles, lastChangedFile, failedTests,
                    withCoverage, timers, debounceTimer, runs, received, stop, halt,
                    sinceQual, burst, owed, vin, calls >>

\* the calls of Stop are alike: the second is the one that begins second
StopTurn(c) ==
    /\ halt = "no" /\ wpc \notin { "new", "failed" }
    /\ stopper[c] = "idle"
    /\ \A d \in Stoppers : d < c => stopper[d] # "idle"

\* Stop: close(tw.stopChan), a panic when it is closed already
StopSignal(c) ==
    /\ StopTurn(c)
    /\ IF stopChan = "closed"
       THEN /\ stopper' = [ stopper EXCEPT ![c] = "panic" ]
            /\ halt' = "panic"
            /\ UNCHANGED stopChan
       ELSE /\ stopper' = [ stopper EXCEPT ![c] = "close" ]
            /\ stopChan' = "closed"
            /\ UNCHANGED halt
    /\ UNCHANGED << dvars, svars >>
    /\ UNCHANGED << wpc, event, handled, changedFiles, lastChangedFile, failedTests,
                    withCoverage, timers, debounceTimer, runs, received, stop,
                    sinceQual, burst, owed, vin, calls >>

\* Stop: tw.watcher.Close() and tw.writer.Stop(), and the return
StopReturn(c) ==
    /\ halt = "no"
    /\ stopper[c] = "close"
    /\ stop' = "closed"
    /\ stopper' = [ stopper EXCEPT ![c] = "returned" ]
    /\ UNCHANGED << stopChan, dvars, svars >>
    /\ UNCHANGED << wpc, event, handled, changedFiles, lastChangedFile, failedTests,
                    withCoverage, timers, debounceTimer, runs, received, halt,
                    sinceQual, burst, owed, vin, calls >>

NextStopChan ==
    \/ WatchStart
    \/ \E g \in Goroutines : RunRead(g)
    \/ \E g \in Goroutines, out \in Outputs : RunFinish(g, out)
    \/ \E e \in Events : LoopEvent(e)
    \/ LoopError
    \/ WatchClosed
    \/ LoopStop
    \/ \E t \in timers : TimerFire(t)
    \/ Tick
    \/ \E c \in Stoppers : StopSignal(c)
    \/ \E c \in Stoppers : StopReturn(c)

\* Watch of watcher/watcher.go, with Stop called from other goroutines
SpecStopChan == Init /\ [][NextStopChan]_vars

\* Watch's goroutine goes on when it can; so do the runs it waits for
FairStopChan ==
    /\ SpecStopChan
    /\ WF_vars(LoopStop)
    /\ WF_vars(WatchClosed)
    /\ WF_vars(RunRead(0))
    /\ WF_vars(\E out \in Outputs : RunFinish(0, out))

NextApi ==
    \/ \E f \in Files : AddChangedFile(f)
    \/ \E t \in TestNames : TrackFailedTest(t)
    \/ ClearFailedTests
    \/ \E b \in BOOLEAN : EnableCoverage(b)
    \/ CallRunTests
    \/ RunRead(0)
    \/ \E out \in Outputs : RunFinish(0, out)

\* the exported methods called in any order by one client
SpecApi == Init /\ [][NextApi]_vars

\* a TestWatcher with coverage on or off, whose runs all get the same output
InitVerdict ==
    \E out \in VerdictInputs, cover \in BOOLEAN :
        /\ wpc = "new"
        /\ event = NoEvent
        /\ handled = "none"
        /\ changedFiles = {}
        /\ lastChangedFile = << >>
        /\ failedTests = {}
        /\ withCoverage = cover
        /\ timers = {}
        /\ debounceTimer = 0
        /\ runs = [ g \in Goroutines |-> IdleRun ]
        /\ received = 0
        /\ stop = "no"
        /\ halt = "no"
        /\ sinceQual = debounceDelay + 1
        /\ burst = {}
        /\ owed = {}
        /\ vin = out
        /\ calls = << >>
        /\ tree = DefaultTree
        /\ WalkNotDone
        /\ StopNotCalled
        /\ SourceNotMade

NextVerdict ==
    \/ \E f \in { FileAX, FileBY } : AddChangedFile(f)
    \/ \E t \in TestNames : TrackFailedTest(t)
    \/ ClearFailedTests
    \/ CallRunTests
    \/ RunRead(0)
    \/ RunFinishKept(0)

\* RunTests called again and again by one client, with the same output of
\* `go test` each time, between other calls of the exported methods
SpecVerdict == InitVerdict /\ [][NextVerdict]_vars

\* a TestWatcher whose watch root holds any of the trees
InitWalk ==
    \E t \in Trees :
        /\ wpc = "new"
        /\ event = NoEvent
        /\ handled = "none"
        /\ changedFiles = {}
        /\ lastChangedFile = << >>
        /\ failedTests = {}
        /\ withCoverage = FALSE
        /\ timers = {}
        /\ debounceTimer = 0
        /\ runs = [ g \in Goroutines |-> IdleRun ]
        /\ received = 0
        /\ stop = "no"
        /\ halt = "no"
        /\ sinceQual = debounceDelay + 1
        /\ burst = {}
        /\ owed = {}
        /\ vin = NoOutput
        /\ calls = << >>
        /\ tree = t
        /\ WalkNotDone
        /\ StopNotCalled
        /\ SourceNotMade

NextWalk ==
    \/ WatchStart
    \/ RunRead(0)
    \/ \E out \in Outputs : RunFinish(0, out)

\* Watch from its call to the moment it is in its loop, or has returned
SpecWalk == InitWalk /\ [][NextWalk]_vars

\* Watch on a tree whose root was given in any of the forms
InitRoot ==
    \E t \in RootTrees :
        /\ wpc = "new"
        /\ event = NoEvent
        /\ handled = "none"
        /\ changedFiles = {}
        /\ lastChangedFile = << >>
        /\ failedTests = {}
        /\ withCoverage = FALSE
        /\ timers = {}
        /\ debounceTimer = 0
        /\ runs = [ g \in Goroutines |-> IdleRun ]
        /\ received = 0
        /\ stop = "no"
        /\ halt = "no"
        /\ sinceQual = debounceDelay + 1
        /\ burst = {}
        /\ owed = {}
        /\ vin = NoOutput
        /\ calls = << >>
        /\ tree = t
        /\ WalkNotDone
        /\ StopNotCalled
        /\ SourceNotMade

SpecRoot == InitRoot /\ [][NextWalk]_vars


(***************************************************************************)
(* The notification source: filenotify.New, PollingWatcher, EventWatcher.  *)
(***************************************************************************)
\* the history of a PollingWatcher has room; that of an EventWatcher is not kept
Room == variant = "polling" => Len(history) < MaxHistory
Log(name, op) == IF variant = "polling"
                 THEN Append(history, [ Name |-> name, Op |-> op ])
                 ELSE history

\* what the watch list keeps for a name: PollingWatcher the fileInfo, fsnotify
\* the name alone
Watched == "watched"
Entry(n) == IF variant = "polling" THEN fsys[n] ELSE Watched

\* a panic ends the process
Crashed == loop.pc = "panic" \/ \E c \in Closers : closer[c] = "panic"

Running == variant # "none" /\ ~Crashed

\* New that returns a PollingWatcher whatever NewEventWatcher returned
NewPollingAlways(fails) ==
    /\ variant = "none"
    /\ variant' = "polling"
    /\ newErr' = fails
    /\ loop' = [ loop EXCEPT !.pc = "select" ]
    /\ UNCHANGED << wvars, kvars, dvars >>
    /\ UNCHANGED << fsys, watchList, mutex, caller, closer, closed, stopped, history >>

\* New: NewEventWatcher, and NewPollingWatcher when that returns an error;
\* either starts the goroutine of the source
New(fails) ==
    /\ variant = "none"
    /\ variant' = IF fails THEN "polling" ELSE "event"
    /\ newErr' = fails
    /\ loop' = [ loop EXCEPT !.pc = "select" ]
    /\ UNCHANGED << wvars, kvars, dvars >>
    /\ UNCHANGED << fsys, watchList, mutex, caller, closer, closed, stopped, history >>

\* another program changes, deletes, creates a file or makes it unreadable
FsChange(n, s) ==
    /\ Running
    /\ s # fsys[n]
    /\ Room
    /\ fsys' = [ fsys EXCEPT ![n] = s ]
    /\ history' = Log(n, "Change")
    /\ UNCHANGED << wvars, kvars, dvars >>
    /\ UNCHANGED << variant, newErr, watchList, mutex, loop, caller, closer, closed,
                    stopped >>

\* a goroutine calls Add or Remove
Call(op, n) ==
    /\ Running
    /\ caller.pc = "idle"
    /\ caller' = [ pc |-> "lock", op |-> op, name |-> n, ret |-> "none" ]
    /\ UNCHANGED << wvars, kvars, dvars >>
    /\ UNCHANGED << variant, newErr, fsys, watchList, mutex, loop, closer, closed,
                    stopped, history >>

\* PollingWatcher.Add from the moment it has the mutex; EventWatcher.Add,
\* which hands the name to fsnotify and takes no mutex
Add ==
    /\ Running
    /\ caller.pc = "lock" /\ caller.op = "Add"
    /\ variant = "polling" => mutex = "free"
    /\ Room
    /\ IF fsys[caller.name] \in StatValues
         THEN /\ watchList' = [ watchList EXCEPT ![caller.name] = Entry(caller.name) ]
              /\ history' = Log(caller.name, "Add")
              /\ caller' = [ CallerIdle EXCEPT !.ret = "nil" ]
         ELSE /\ caller' = [ CallerIdle EXCEPT !.ret = "err" ]
              /\ UNCHANGED << watchList, history >>
    /\ UNCHANGED << wvars, kvars, dvars >>
    /\ UNCHANGED << variant, newErr, fsys, mutex, loop, closer, closed, stopped >>

\* Remove that does not take the mutex
RemoveUnlocked ==
    /\ Running
    /\ caller.pc = "lock" /\ caller.op = "Remove"
    /\ IF watchList[caller.name] # NotWatched
         THEN /\ watchList' = [ watchList EXCEPT ![caller.name] = NotWatched ]
              /\ caller' = [ CallerIdle EXCEPT !.ret = "nil" ]
         ELSE /\ caller' = [ CallerIdle EXCEPT !.ret = "err" ]
              /\ UNCHANGED watchList
    /\ UNCHANGED << wvars, kvars, dvars >>
    /\ UNCHANGED << variant, newErr, fsys, mutex, loop, closer, closed, stopped,
                    history >>

\* PollingWatcher.Remove from the moment it has the mutex; EventWatcher.Remove
Remove ==
    /\ Running
    /\ caller.pc = "lock" /\ caller.op = "Remove"
    /\ variant = "polling" => mutex = "free"
    /\ IF watchList[caller.name] # NotWatched
         THEN /\ watchList' = [ watchList EXCEPT ![caller.name] = NotWatched ]
              /\ caller' = [ CallerIdle EXCEPT !.ret = "nil" ]
         ELSE /\ caller' = [ CallerIdle EXCEPT !.ret = "err" ]
              /\ UNCHANGED watchList
    /\ UNCHANGED << wvars, kvars, dvars >>
    /\ UNCHANGED << variant, newErr, fsys, mutex, loop, closer, closed, stopped,
                    history >>

\* poll: the ticker fires and checkFiles takes the mutex
PollTick ==
    /\ Running /\ variant = "polling"
    /\ loop.pc = "select"
    /\ mutex = "free"
    /\ mutex' = "poll"
    /\ loop' = [ loop EXCEPT !.pc = "range",
                             !.todo = { n \in WatchNames : watchList[n] # NotWatched } ]
    /\ UNCHANGED << wvars, kvars, dvars >>
    /\ UNCHANGED << variant, newErr, fsys, watchList, caller, closer, closed, stopped,
                    history >>

\* checkFiles: one turn of the loop over w.files, up to its send if it has one
checkFiles(n) ==
    /\ Running /\ variant = "polling"
    /\ loop.pc = "range"
    /\ n \in loop.todo
    /\ loop' = IF fsys[n] = "absent"
                THEN [ loop EXCEPT !.pc = "send",
                          !.send = [ chan |-> "events", Name |-> n, Op |-> "Remove",
                                     info |-> "none" ] ]
                ELSE IF fsys[n] = "denied"
                THEN [ loop EXCEPT !.pc = "send",
                          !.send = [ chan |-> "errors", Name |-> n, Op |-> "none",
                                     info |-> "none" ] ]
                ELSE IF fsys[n] # watchList[n]
                THEN [ loop EXCEPT !.pc = "send",
                          !.send = [ chan |-> "events", Name |-> n, Op |-> "Write",
                                     info |-> fsys[n] ] ]
                ELSE [ loop EXCEPT !.todo = loop.todo \ { n } ]
    /\ UNCHANGED << wvars, kvars, dvars >>
    /\ UNCHANGED << variant, newErr, fsys, watchList, mutex, caller, closer, closed,
                    stopped, history >>

\* checkFiles: the loop over w.files is over, the deferred Unlock runs
PollUnlock ==
    /\ Running /\ variant = "polling"
    /\ loop.pc = "range"
    /\ loop.todo = {}
    /\ mutex' = "free"
    /\ loop' = [ loop EXCEPT !.pc = "select" ]
    /\ UNCHANGED << wvars, kvars, dvars >>
    /\ UNCHANGED << variant, newErr, fsys, watchList, caller, closer, closed, stopped,
                    history >>

\* poll: w.stop is closed, poll returns and its deferred close(w.done) runs
PollStop ==
    /\ Running /\ variant = "polling"
    /\ loop.pc = "select"
    /\ "stop" \in closed
    /\ loop' = [ loop EXCEPT !.pc = "done" ]
    /\ closed' = closed \cup { "done" }
    /\ UNCHANGED << wvars, kvars, dvars >>
    /\ UNCHANGED << variant, newErr, fsys, watchList, mutex, caller, closer, stopped,
                    history >>

\* checkFiles that keeps a name it has sent Remove for
ReceiveKeepsName ==
    /\ Running
    /\ loop.pc = "send"
    /\ loop.send.chan \notin closed
    /\ loop.send.chan = "events" => Room
    /\ history' = IF loop.send.chan = "events"
                   THEN Log(loop.send.Name, loop.send.Op)
                   ELSE history
    /\ watchList' = IF variant = "polling" /\ loop.send.Op = "Write"
                     THEN [ watchList EXCEPT ![loop.send.Name] = loop.send.info ]
                     ELSE watchList
    /\ loop' = IF variant = "polling"
                THEN [ pc |-> "range", todo |-> loop.todo \ { loop.send.Name },
                       send |-> NoSend ]
                ELSE [ loop EXCEPT !.pc = "select", !.send = NoSend ]
    /\ UNCHANGED << wvars, kvars, dvars >>
    /\ UNCHANGED << variant, newErr, fsys, mutex, caller, closer, closed, stopped >>

\* checkFiles that keeps the old fileInfo of a name it has sent Write for
ReceiveKeepsInfo ==
    /\ Running
    /\ loop.pc = "send"
    /\ loop.send.chan \notin closed
    /\ loop.send.chan = "events" => Room
    /\ history' = IF loop.send.chan = "events"
                   THEN Log(loop.send.Name, loop.send.Op)
                   ELSE history
    /\ watchList' = IF variant = "polling" /\ loop.send.Op = "Remove"
                     THEN [ watchList EXCEPT ![loop.send.Name] = NotWatched ]
                     ELSE watchList
    /\ loop' = IF variant = "polling"
                THEN [ pc |-> "range", todo |-> loop.todo \ { loop.send.Name },
                       send |-> NoSend ]
                ELSE [ loop EXCEPT !.pc = "select", !.send = NoSend ]
    /\ UNCHANGED << wvars, kvars, dvars >>
    /\ UNCHANGED << variant, newErr, fsys, mutex, caller, closer, closed, stopped >>

\* the consumer takes what the goroutine of the source is sending on the
\* unbuffered channel; checkFiles goes on with the statement after the send
Receive ==
    /\ Running
    /\ loop.pc = "send"
    /\ loop.send.chan \notin closed
    /\ loop.send.chan = "events" => Room
    /\ history' = IF loop.send.chan = "events"
                   THEN Log(loop.send.Name, loop.send.Op)
                   ELSE history
    /\ watchList' = IF variant = "polling" /\ loop.send.Op = "Remove"
                 THEN [ watchList EXCEPT ![loop.send.Name] = NotWatched ]
                 ELSE IF variant = "polling" /\ loop.send.Op = "Write"
                 THEN [ watchList EXCEPT ![loop.send.Name] = loop.send.info ]
                 ELSE watchList
    /\ loop' = IF variant = "polling"
                THEN [ pc |-> "range", todo |-> loop.todo \ { loop.send.Name },
                       send |-> NoSend ]
                ELSE [ loop EXCEPT !.pc = "select", !.send = NoSend ]
    /\ UNCHANGED << wvars, kvars, dvars >>
    /\ UNCHANGED << variant, newErr, fsys, mutex, caller, closer, closed, stopped >>

\* the channel the goroutine of the source is sending on has been closed
SendOnClosed ==
    /\ Running
    /\ loop.pc = "send"
    /\ loop.send.chan \in closed
    /\ loop' = [ loop EXCEPT !.pc = "panic" ]
    /\ UNCHANGED << wvars, kvars, dvars >>
    /\ UNCHANGED << variant, newErr, fsys, watchList, mutex, caller, closer, closed,
                    stopped, history >>

\* watch: fsnotify has an event or an error for a name it watches
WatchForward(n, op) ==
    /\ Running /\ variant = "event"
    /\ loop.pc = "select"
    /\ "fsnotify" \notin closed
    /\ watchList[n] # NotWatched
    /\ loop' = [ loop EXCEPT !.pc = "send",
                    !.send = [ chan |-> IF op = "none" THEN "errors" ELSE "events",
                               Name |-> n, Op |-> op, info |-> "none" ] ]
    /\ UNCHANGED << wvars, kvars, dvars >>
    /\ UNCHANGED << variant, newErr, fsys, watchList, mutex, caller, closer, closed,
                    stopped, history >>

\* watch: the channels of fsnotify are closed, watch returns
WatchReturn ==
    /\ Running /\ variant = "event"
    /\ loop.pc = "select"
    /\ "fsnotify" \in closed
    /\ loop' = [ loop EXCEPT !.pc = "done" ]
    /\ UNCHANGED << wvars, kvars, dvars >>
    /\ UNCHANGED << variant, newErr, fsys, watchList, mutex, caller, closer, closed,
                    stopped, history >>

\* the calls of Close are alike: the second is the one that begins second
CloseTurn(c) == closer[c] = "idle" /\ \A d \in Closers : d < c => closer[d] # "idle"

\* close(ch): a panic when ch is closed already
CloseChan(c, ch, next) ==
    IF ch \in closed
    THEN /\ closer' = [ closer EXCEPT ![c] = "panic" ]
         /\ UNCHANGED closed
    ELSE /\ closer' = [ closer EXCEPT ![c] = next ]
         /\ closed' = closed \cup { ch }

\* Close that does not wait for w.done
PollCloseNoWait(c) ==
    /\ Running /\ variant = "polling"
    /\ CloseTurn(c)
    /\ CloseChan(c, "stop", "events")
    /\ UNCHANGED << wvars, kvars, dvars >>
    /\ UNCHANGED << variant, newErr, fsys, watchList, mutex, loop, caller, stopped,
                    history >>

\* PollingWatcher.Close: close(w.stop)
PollClose(c) ==
    /\ Running /\ variant = "polling"
    /\ CloseTurn(c)
    /\ CloseChan(c, "stop", "wait")
    /\ UNCHANGED << wvars, kvars, dvars >>
    /\ UNCHANGED << variant, newErr, fsys, watchList, mutex, loop, caller, stopped,
                    history >>

\* PollingWatcher.Close: <-w.done
PollCloseWait(c) ==
    /\ Running /\ variant = "polling"
    /\ closer[c] = "wait"
    /\ "done" \in closed
    /\ closer' = [ closer EXCEPT ![c] = "events" ]
    /\ UNCHANGED << wvars, kvars, dvars >>
    /\ UNCHANGED << variant, newErr, fsys, watchList, mutex, loop, caller, closed,
                    stopped, history >>

\* EventWatcher.Close: the test of w.stopped
EventClose(c) ==
    /\ Running /\ variant = "event"
    /\ CloseTurn(c)
    /\ closer' = [ closer EXCEPT ![c] = IF stopped THEN "returned" ELSE "set" ]
    /\ UNCHANGED << wvars, kvars, dvars >>
    /\ UNCHANGED << variant, newErr, fsys, watchList, mutex, loop, caller, closed,
                    stopped, history >>

\* EventWatcher.Close: w.stopped = true and w.watcher.Close()
EventCloseSet(c) ==
    /\ Running /\ variant = "event"
    /\ closer[c] = "set"
    /\ stopped' = TRUE
    /\ closed' = closed \cup { "fsnotify" }
    /\ closer' = [ closer EXCEPT ![c] = "events" ]
    /\ UNCHANGED << wvars, kvars, dvars >>
    /\ UNCHANGED << variant, newErr, fsys, watchList, mutex, loop, caller, history >>

\* Close of either variant: close(w.events)
CloseEvents(c) ==
    /\ Running
    /\ closer[c] = "events"
    /\ CloseChan(c, "events", "errors")
    /\ UNCHANGED << wvars, kvars, dvars >>
    /\ UNCHANGED << variant, newErr, fsys, watchList, mutex, loop, caller, stopped,
                    history >>

\* Close of either variant: close(w.errors), and the return
CloseErrors(c) ==
    /\ Running
    /\ closer[c] = "errors"
    /\ CloseChan(c, "errors", "returned")
    /\ UNCHANGED << wvars, kvars, dvars >>
    /\ UNCHANGED << variant, newErr, fsys, watchList, mutex, loop, caller, stopped,
                    history >>

NextSource ==
    \/ \E fails \in BOOLEAN : New(fails)
    \/ \E n \in ChangedNames, s \in FsStates : FsChange(n, s)
    \/ \E op \in { "Add", "Remove" }, n \in WatchNames : Call(op, n)
    \/ Add
    \/ Remove
    \/ PollTick
    \/ \E n \in WatchNames : checkFiles(n)
    \/ PollUnlock
    \/ PollStop
    \/ Receive
    \/ SendOnClosed
    \/ \E n \in ChangedNames, op \in { "Write", "Remove", "none" } : WatchForward(n, op)
    \/ WatchReturn
    \/ \E c \in Closers : PollClose(c)
    \/ \E c \in Closers : PollCloseWait(c)
    \/ \E c \in Closers : EventClose(c)
    \/ \E c \in Closers : EventCloseSet(c)
    \/ \E c \in Closers : CloseEvents(c)
    \/ \E c \in Closers : CloseErrors(c)

\* the source that New returns, with one goroutine that calls Add and
\* Remove, a consumer of Events() and Errors(), and two calls of Close
SpecSource == Init /\ [][NextSource]_vars

\* a PollingWatcher that watches the names of WatchNames, before its first
\* tick: New has fallen back to it and Add has returned nil for each name
SourceWatching ==
    /\ variant = "polling"
    /\ newErr = TRUE
    /\ fsys = [ n \in WatchNames |-> "s1" ]
    /\ watchList = [ n \in WatchNames |-> "s1" ]
    /\ mutex = "free"
    /\ loop = [ LoopNotStarted EXCEPT !.pc = "select" ]
    /\ caller = CallerIdle
    /\ closer = [ c \in Closers |-> "idle" ]
    /\ closed = {}
    /\ stopped = FALSE
    /\ history = << >>

InitConsumer ==
    /\ wpc = "new"
    /\ event = NoEvent
    /\ handled = "none"
    /\ changedFiles = {}
    /\ lastChangedFile = << >>
    /\ failedTests = {}
    /\ withCoverage = FALSE
    /\ timers = {}
    /\ debounceTimer = 0
    /\ runs = [ g \in Goroutines |-> IdleRun ]
    /\ received = 0
    /\ stop = "no"
    /\ halt = "no"
    /\ sinceQual = debounceDelay + 1
    /\ burst = {}
    /\ owed = {}
    /\ vin = NoOutput
    /\ calls = << >>
    /\ tree = DefaultTree
    /\ WalkNotDone
    /\ StopNotCalled
    /\ SourceWatching

\* the one consumer, which is the goroutine that calls Add and Remove: it
\* takes what checkFiles is sending when it is at its receive, and then goes
\* back to the receive (op = "none") or calls Add or Remove for the name
ConsumerTake(op) ==
    /\ Running /\ variant = "polling"
    /\ caller.pc = "idle"
    /\ loop.pc = "send"
    /\ loop.send.chan \notin closed
    /\ loop.send.chan = "events" => Room
    /\ history' = IF loop.send.chan = "events"
                   THEN Log(loop.send.Name, loop.send.Op)
                   ELSE history
    /\ watchList' = IF loop.send.Op = "Remove"
                     THEN [ watchList EXCEPT ![loop.send.Name] = NotWatched ]
                     ELSE IF loop.send.Op = "Write"
                     THEN [ watchList EXCEPT ![loop.send.Name] = loop.send.info ]
                     ELSE watchList
    /\ loop' = [ pc |-> "range", todo |-> loop.todo \ { loop.send.Name },
                 send |-> NoSend ]
    /\ caller' = IF op = "none"
                  THEN caller
                  ELSE [ pc |-> "lock", op |-> op, name |-> loop.send.Name,
                         ret |-> "none" ]
    /\ UNCHANGED << wvars, kvars, dvars >>
    /\ UNCHANGED << variant, newErr, fsys, mutex, closer, closed, stopped >>

NextConsumer ==
    \/ \E n \in WatchNames, s \in FsStates : FsChange(n, s)
    \/ PollTick
    \/ \E n \in WatchNames : checkFiles(n)
    \/ PollUnlock
    \/ \E op \in { "none", "Add", "Remove" } : ConsumerTake(op)
    \/ Add
    \/ Remove

\* a PollingWatcher and the one goroutine that consumes its events and
\* reacts to them with Add and Remove
SpecConsumer == InitConsumer /\ [][NextConsumer]_vars

\* the goroutines of the source and of Close go on when they can; poll's
\* select takes the closed w.stop sooner or later when the ticker is ready
\* too; nothing obliges the consumer to receive
FairSource ==
    /\ SpecSource
    /\ WF_vars(\E n \in WatchNames : checkFiles(n))
    /\ WF_vars(PollUnlock)
    /\ SF_vars(PollStop)
    /\ WF_vars(SendOnClosed)
    /\ WF_vars(WatchReturn)
    /\ WF_vars(\E c \in Closers : PollCloseWait(c))
    /\ WF_vars(\E c \in Closers : EventCloseSet(c))
    /\ WF_vars(\E c \in Closers : CloseEvents(c))
    /\ WF_vars(\E c \in Closers : CloseErrors(c))


(***************************************************************************)
(* The claims.                                                             *)
(***************************************************************************)
WriteOrCreate(e) == e.Op \cap { "Write", "Create" } # {}

\* C1: every run a debounce timer dispatches has in its batch all the paths
\* of the burst of events that led to it
C1_BatchHoldsTheBurst ==
    \A g \in TimerGoroutines :
        runs[g].pc = "cmd" => runs[g].burst \subseteq runs[g].batch

\* C2: at most one test process runs at any time
C2_OneRunAtATime ==
    Cardinality({ g \in Goroutines : runs[g].pc = "cmd" }) <= 1

\* C3: a path Watch has recorded stays in the pending set until a run has
\* read it into its batch
C3_NoChangeLost == owed \subseteq changedFiles

\* C4: Watch is never at its write of the pending set while the goroutine of
\* a debounce timer is at its read of it
C4_MutualExclusion ==
    ~ (wpc = "add" /\ \E g \in TimerGoroutines : runs[g].pc = "read")

\* C5: at most one timer is armed, it is the one the last qualifying event
\* armed, it cannot fire before debounceDelay has passed since that event, and
\* a timer is armed exactly while recorded paths wait for their run
C5_TrailingDebounce ==
    /\ Cardinality(timers) <= 1
    /\ \A t \in timers : /\ t.id = debounceTimer
                         /\ t.left + sinceQual >= debounceDelay
    /\ (burst # {}) <=> (timers # {})

\* C5 witness: a timer has fired for a burst of two events
C5_Witness ==
    \E g \in TimerGoroutines : runs[g].pc = "read" /\ Cardinality(runs[g].burst) = 2

\* C6: taking an event whose kind has neither Write nor Create changes
\* neither the pending set nor the timer, and Watch is back at its select
C6_OnlyWriteOrCreate ==
    [][ \A e \in Events :
          (WatchRecv(e) /\ ~ WriteOrCreate(e)) =>
              /\ changedFiles' = changedFiles
              /\ timers' = timers
              /\ debounceTimer' = debounceTimer
              /\ wpc' = "select" ]_vars

\* C6 witness: Watch has taken a Remove event for a .go file that is not
\* pending, while the timer an earlier event armed is still armed
C6_Witness ==
    /\ handled = "kind"
    /\ wpc = "select"
    /\ changedFiles = { FileBY }
    /\ timers # {}

\* C7: taking a Write or Create event the file filter rejects changes neither
\* the pending set nor the timer; one the filter accepts is handled further,
\* and its path is in the pending set when the handler is done
C7_FilterDropsOrInserts ==
    [][ /\ \A e \in Events :
             (WatchRecv(e) /\ WriteOrCreate(e) /\ ~ FilterAccepts[e.Name]) =>
                 /\ changedFiles' = changedFiles
                 /\ timers' = timers
                 /\ debounceTimer' = debounceTimer
                 /\ wpc' = "select"
        /\ \A e \in Events :
             (WatchRecv(e) /\ WriteOrCreate(e) /\ FilterAccepts[e.Name]) => wpc' = "add"
        /\ (wpc = "add" /\ wpc' = "select") => event.Name \in changedFiles' ]_vars

\* C7 witness: Watch has taken a Write event for a .txt file while a timer is
\* armed and a .go file is pending
C7_Witness ==
    /\ handled = "filter"
    /\ wpc = "select"
    /\ changedFiles = { FileAX }
    /\ timers # {}


(***************************************************************************)
(* The scope of a run, stated without the program's functions: the unit of *)
(* each file and failed test of the model, and the selector of each unit.  *)
(***************************************************************************)
UnitOfFile == (FileAX :> "a") @@ (FileAY :> "a") @@ (FileBY :> "b") @@
              (FileRoot :> "root") @@ (FileTxt :> "a") @@ (FileOut :> "out")
UnitOfTest == (TestAX :> "a") @@ (TestBY :> "b")
SelectorOfUnit == ("a" :> << ".", "/", "a" >>) @@ ("b" :> << ".", "/", "b" >>) @@
                  ("root" :> << "." >>) @@
                  ("out" :> << ".", "/", ".", ".", "/", "o" >>)

\* the units of what the run of goroutine g read
UnitsOfRun(g) ==
    { UnitOfFile[f] : f \in runs[g].batch } \cup { UnitOfTest[t] : t \in runs[g].failed }

C10_NothingRecordedRunsAll ==
    \A g \in Goroutines :
        (runs[g].pc = "cmd" /\ runs[g].batch = {} /\ runs[g].failed = {}) =>
            runs[g].args.sel = { AllPackages }

\* C10 witness: the run Watch makes on startup
C10_Witness ==
    /\ wpc = "startup"
    /\ runs[0].pc = "cmd"
    /\ runs[0].batch = {}
    /\ runs[0].failed = {}

\* whether a selector leaves the watch root: it has a .. element, or it names
\* an absolute directory
PointsOutside(sel) ==
    \/ << ".", "." >> \in Range(Split(sel, "/"))
    \/ Len(sel) > 2 /\ sel[3] = "/"

\* the selectors that point outside, of the selectors the model can produce
Outside == { sel \in { SelectorOfUnit[u] : u \in DOMAIN SelectorOfUnit } :
               PointsOutside(sel) }

\* C11: a run whose batch has a file that is not under the watch root gets
\* ./... , and no run gets a selector that points outside the root
C11_OutsideRootRunsAll ==
    \A g \in Goroutines :
        runs[g].pc = "cmd" =>
            /\ (FileOut \in runs[g].batch => runs[g].args.sel = { AllPackages })
            /\ runs[g].args.sel \cap Outside = {}


(***************************************************************************)
(* The runs that are kept (SpecVerdict).                                   *)
(***************************************************************************)
\* a kept run has just ended
RunEnded == Len(calls') = Len(calls) + 1
\* the verdict of the kept run that has just ended
EndedVerdict == calls'[Len(calls')].verdict

PASSED == << "ALL TESTS PASSED" >>
FAILURES == << "TEST FAILURES" >>
BUILDFAILED == << "BUILD FAILED" >>

\* the packages whose FAIL line reports failed tests, and their selectors
FailingPackages(text) ==
    { text[l][2] : l \in { m \in 1..Len(text) :
          HasPrefix(text[m], "FAIL") /\ Len(text[m]) >= 3 /\ text[m][3] # "[build" } }
SelectorOfPackage == ("pkg/a" :> << ".", "/", "a" >>) @@ ("pkg/b" :> << ".", "/", "b" >>)

\* the selectors of the run that would follow with no new changed file
NextSelectors == BuildTestArgs(changedFiles', failedTests', withCoverage').sel

\* the packages with failing tests that the run of goroutine g has tested
FailedIn(g) ==
    { p \in FailingPackages(vin.text) :
        SelectorOfPackage[p] \in runs[g].args.sel \/ runs[g].args.sel = { AllPackages } }

\* C12: when a run ends with test failures, the run that follows with no new
\* changed file has the package of each failing test among its selectors, or
\* has ./...
C12_FailureMemory ==
    [][ (RunEnded /\ EndedVerdict.shown = FAILURES) =>
            \A p \in FailedIn(0) :
                SelectorOfPackage[p] \in NextSelectors \/ NextSelectors = { AllPackages }
      ]_vars

\* C13: when a run with a failing exit status and k distinct "--- FAIL:" lines
\* ends with test failures, and no failed test was recorded before, k failed
\* tests are recorded after it
C13_FailuresRecorded ==
    [][ (RunEnded /\ vin.err /\ EndedVerdict.shown = FAILURES /\ failedTests = {}) =>
            Cardinality(failedTests') = Cardinality(Range(FailedNames(vin.text, 1)))
      ]_vars

\* C14: a run that ends with ALL TESTS PASSED leaves no failed test recorded,
\* so that the next run with no changed file gets ./... ; a run that ends
\* otherwise, and a run that has not ended, leave the failed tests as they are
C14_ClearedOnlyBySuccess ==
    [][ /\ (RunEnded /\ EndedVerdict.shown = PASSED) =>
               failedTests' = {} /\ NextSelectors = { AllPackages }
        /\ (RunEnded /\ EndedVerdict.shown # PASSED) => failedTests' = failedTests
        /\ (runs' # runs /\ ~ RunEnded) => failedTests' = failedTests ]_vars

\* C14 witness: a run that found a failed test recorded has ended with ALL
\* TESTS PASSED, and none is recorded
C14_Witness ==
    /\ Len(calls) = 1
    /\ calls[1].hadFailed
    /\ calls[1].verdict.shown = PASSED
    /\ failedTests = {}
    /\ runs[0].pc = "idle"

\* whether the output has one of the two build-failure phrases
BuildMarker(text) == ContainsBuildFailed(text) \/ ContainsDoesNotCompile(text)

\* C15: a failing exit status with a build-failure phrase and "--- FAIL"
\* markers gives BUILD FAILED with the raw text, and not TEST FAILURES
C15_BuildFailurePrecedence ==
    (vin.err /\ BuildMarker(vin.text) /\ CountFail(vin.text) > 0) =>
        \A i \in 1..Len(calls) :
            /\ calls[i].verdict.shown = BUILDFAILED
            /\ calls[i].verdict.detail = << vin.text >>

\* C15 witness: a run has ended whose output has both kinds of markers
C15_Witness == vin = OutBuildAndFail /\ Len(calls) >= 1

\* C16: a run whose exit status is success never ends with BUILD FAILED
C16_BuildFailureNeedsExitFailure ==
    ~ vin.err => \A i \in 1..Len(calls) : calls[i].verdict.shown # BUILDFAILED

\* C17: a run that does not end with BUILD FAILED ends with TEST FAILURES
\* when it has a "--- FAIL" marker or a failing exit status, and with ALL
\* TESTS PASSED otherwise
C17_FailuresOrSuccess ==
    \A i \in 1..Len(calls) :
        calls[i].verdict.shown # BUILDFAILED =>
            calls[i].verdict.shown =
                IF CountFail(vin.text) > 0 \/ vin.err THEN FAILURES ELSE PASSED

\* C17 witness: a run with a "--- FAIL" marker and exit status success has ended
C17_Witness ==
    /\ vin = OutFailLogged
    /\ Len(calls) >= 1
    /\ calls[1].verdict.shown = FAILURES

\* the case of C18: a failing exit status, no "--- FAIL" marker and no
\* build-failure phrase
ExitFailureAlone == vin.err /\ CountFail(vin.text) = 0 /\ ~ BuildMarker(vin.text)

\* C18, as claimed: such a run ends with ALL TESTS PASSED and RunTests returns
\* no error
C18_ExitFailureAlonePasses ==
    ExitFailureAlone =>
        \A i \in 1..Len(calls) :
            calls[i].verdict.shown = PASSED /\ ~ calls[i].verdict.err

\* C18, amended: such a run ends with TEST FAILURES followed by the whole
\* output, the bell rings, and RunTests returns the error
C18_ExitFailureAloneFails ==
    ExitFailureAlone =>
        \A i \in 1..Len(calls) :
            /\ calls[i].verdict.shown = FAILURES
            /\ calls[i].verdict.detail = << vin.text >>
            /\ calls[i].verdict.bell = 1
            /\ calls[i].verdict.err

\* C18 witness: a run with such an output has ended
C18_Witness == vin = OutNoMarker /\ Len(calls) >= 1

\* C19: every run that has ended has written exactly one verdict, and has
\* rung the bell once when the verdict is BUILD FAILED or TEST FAILURES and
\* not at all when it is ALL TESTS PASSED
C19_OneVerdict ==
    \A i \in 1..Len(calls) :
        /\ Len(calls[i].verdict.shown) = 1
        /\ << calls[i].verdict.shown[1] >> \in { BUILDFAILED, FAILURES, PASSED }
        /\ calls[i].verdict.bell =
               IF calls[i].verdict.shown \in { BUILDFAILED, FAILURES } THEN 1 ELSE 0

\* C19 witness: a run has ended with BUILD FAILED
C19_Witness ==
    /\ Len(calls) >= 1
    /\ calls[1].verdict.shown = BUILDFAILED
    /\ runs[0].pc = "idle"

FailLines(text) == { l \in 1..Len(text) : ContainsPair(text[l], "---", "FAIL:") }

\* C21: for a run that has ended with TEST FAILURES and whose output has k
\* "--- FAIL:" lines, the count of failures is k and extractTestSections
\* gives k sections, the one of each failing test beginning with the
\* "=== RUN" line of that test
C21_OneSectionPerFailure ==
    \A i \in 1..Len(calls) :
        calls[i].verdict.shown = FAILURES =>
            /\ CountFail(vin.text) = Cardinality(FailLines(vin.text))
            /\ Len(extractTestSections(vin.text)) = Cardinality(FailLines(vin.text))
            /\ \A j \in 1..Len(extractTestSections(vin.text)) :
                 extractTestSections(vin.text)[j][1] =
                     << "===", "RUN", FailedNames(vin.text, 1)[j] >>


\* the entries of the history from i to j that are about name n and whose
\* Op is in ops
Entries(n, ops, i, j) ==
    { k \in i..j : k \in 1..Len(history) /\ history[k].Name = n /\ history[k].Op \in ops }

EventOps2 == { "Write", "Remove" }

\* the place of the last Add of n before place j, 0 when there is none
LastAdd(n, j) ==
    IF Entries(n, { "Add" }, 1, j - 1) = {} THEN 0
    ELSE CHOOSE k \in Entries(n, { "Add" }, 1, j - 1) :
             \A m \in Entries(n, { "Add" }, 1, j - 1) : m <= k

\* the names a turn of checkFiles passes without sending anything
PassedSilently ==
    IF variant = "polling" /\ loop.pc = "range" /\ loop'.pc = "range"
    THEN loop.todo \ loop'.todo
    ELSE {}

\* C22: a PollingWatcher sends Remove for a watched name only after the file
\* was deleted, drops the name from the watch list when the event is taken,
\* and sends no other event for the name until it is added again; checkFiles
\* never passes a watched name whose file is gone without sending Remove
C22_RemoveOnce ==
    /\ [](variant = "polling" =>
            \A i \in 1..Len(history) :
                history[i].Op = "Remove" =>
                    /\ Entries(history[i].Name, { "Change" }, 1, i - 1) # {}
                    /\ \A j \in Entries(history[i].Name, EventOps2, i + 1, Len(history)) :
                           Entries(history[i].Name, { "Add" }, i + 1, j - 1) # {}
                    /\ Entries(history[i].Name, { "Add" }, i + 1, Len(history)) = {}
                           => watchList[history[i].Name] = NotWatched)
    /\ [][\A n \in PassedSilently : fsys[n] # "absent"]_vars

\* a PollingWatcher has sent Remove for /r/a, has dropped it, and is in a
\* later tick, which has only /r/b to look at
C22_Witness ==
    /\ variant = "polling"
    /\ history = << [ Name |-> "/r/a", Op |-> "Add" ],
                    [ Name |-> "/r/a", Op |-> "Change" ],
                    [ Name |-> "/r/a", Op |-> "Remove" ],
                    [ Name |-> "/r/b", Op |-> "Add" ] >>
    /\ fsys["/r/a"] = "absent"
    /\ watchList["/r/a"] = NotWatched
    /\ loop.pc = "range" /\ loop.todo = { "/r/b" }

\* C23: a PollingWatcher sends one Write for a watched name whose fileInfo
\* differs from the one kept and keeps the new one: the events for a name
\* since it was added are never more than the changes of its file since
\* then, a name whose file has not changed gets no event, and checkFiles
\* never passes a changed name without sending
C23_WriteOnce ==
    /\ [](variant = "polling" =>
            \A j \in 1..Len(history) :
                history[j].Op \in EventOps2 =>
                    /\ LastAdd(history[j].Name, j) > 0
                    /\ Cardinality(Entries(history[j].Name, EventOps2,
                                           LastAdd(history[j].Name, j), j))
                         <= Cardinality(Entries(history[j].Name, { "Change" },
                                                LastAdd(history[j].Name, j), j)))
    /\ [][/\ \A n \in PassedSilently : fsys[n] \in StatValues => fsys[n] = watchList[n]
          /\ (variant = "polling" /\ loop.pc = "send" /\ loop.send.Op = "Write"
                /\ loop'.pc = "range")
               => watchList'[loop.send.Name] = loop.send.info]_vars

\* a PollingWatcher has sent one Write for the one change of /r/a, keeps the
\* new fileInfo, and a later tick has passed /r/a without an event
C23_Witness ==
    /\ variant = "polling"
    /\ history = << [ Name |-> "/r/a", Op |-> "Add" ],
                    [ Name |-> "/r/a", Op |-> "Change" ],
                    [ Name |-> "/r/a", Op |-> "Write" ] >>
    /\ watchList["/r/a"] = fsys["/r/a"]
    /\ loop.pc = "select"
    /\ mutex = "free"

\* C24: the goroutine of a PollingWatcher never sends on a closed channel:
\* events and errors are closed only when poll has returned
C24_NoSendAfterClose ==
    variant = "polling" =>
        /\ loop.pc # "panic"
        /\ ("events" \in closed \/ "errors" \in closed) => loop.pc = "done"
        /\ \A c \in Closers : closer[c] \in { "events", "errors", "returned" }
                                  => loop.pc = "done"

\* Close of a PollingWatcher has returned after it waited for a tick that
\* was sending an event
C24_Witness ==
    /\ variant = "polling"
    /\ closer[1] = "returned"
    /\ { "events", "errors" } \subseteq closed
    /\ Len(history) > 0 /\ history[Len(history)].Op \in EventOps2

\* C25: no call of Close panics, the second no more than the first
C25_CloseIdempotent ==
    \A c \in Closers : closer[c] # "panic"

\* C26: a caller of Add or Remove of a PollingWatcher never waits for the
\* mutex while checkFiles holds it in a send that no consumer has taken
C26_AddNotBlocked ==
    ~ ( /\ variant = "polling"
        /\ caller.pc = "lock"
        /\ loop.pc = "send"
        /\ mutex = "poll" )

\* C27: New returns the PollingWatcher if and only if NewEventWatcher
\* returned an error, and the variant of a source never changes
C27_ChosenOnce ==
    [][/\ (variant = "none" /\ variant' # "none")
            => (variant' = IF newErr' THEN "polling" ELSE "event")
       /\ variant # "none" => (variant' = variant /\ newErr' = newErr)]_vars

\* New has fallen back to the PollingWatcher, which has since delivered
C27_Witness ==
    /\ variant = "polling"
    /\ newErr
    /\ Len(history) > 0 /\ history[Len(history)].Op \in EventOps2
    /\ closer[1] = "returned"


\* the elements of a path of the tree below the watch root
RelElems(p) ==
    IF p = watchDir THEN << >>
    ELSE Split(SubSeq(p, Len(watchDir) + 2, Len(p)), Separator)

\* no element of the path below the watch root begins with a dot
Visible(p) == \A i \in 1..Len(RelElems(p)) : RelElems(p)[i][1] # "."

VisibleDirs == { p \in tree.entries \cap TreeDirs : Visible(p) }

\* C28: what Watch has registered are directories of the tree that are not
\* hidden and have no hidden directory above them, never a file, and all of
\* these directories when the walk has gone to its end
C28_Registry ==
    wpc # "new" =>
        /\ registered \subseteq VisibleDirs
        /\ wpc # "failed" => registered = VisibleDirs

\* Watch is in its loop, with a tree that has a hidden directory, a directory
\* in it and a directory two levels down
C28_Witness ==
    /\ wpc = "select"
    /\ { DirGit, DirHooks, DirSub, FileAX, FileRoot } \subseteq tree.entries
    /\ registered = { watchDir, DirA, DirSub, DirB }

\* C29: when Add fails for a directory in the walk, Watch returns the error:
\* it is not in its loop, has not called RunTests, and does nothing more
C29_AddFailureAborts ==
    /\ [](wpc # "new" =>
            /\ (tree.readFails = {} /\ tree.addFails \cap VisibleDirs # {})
                 => (wpc = "failed" /\ watchErr.kind = "add"
                       /\ watchErr.path \in tree.addFails)
            /\ wpc = "failed"
                 => (runs[0] = IdleRun /\ received = 0 /\ timers = {}
                       /\ watchErr.path \notin registered))
    /\ [][wpc # "failed"]_vars

\* Watch has returned the error of Add for /r/b, after it registered the
\* directories that come before
C29_Witness ==
    /\ wpc = "failed"
    /\ watchErr = [ kind |-> "add", path |-> DirB ]
    /\ registered = { watchDir, DirA, DirSub }

\* C30: the step in which Watch takes an error from Errors() leaves Watch in
\* its loop and the process alive, and changes neither the pending set, the
\* failed tests, the timers nor the runs
C30_ErrorNotFatal ==
    [][(handled' = "error" /\ received' = received + 1) =>
          /\ wpc' = "select" /\ halt' = "no" /\ stop' = "no"
          /\ changedFiles' = changedFiles
          /\ failedTests' = failedTests
          /\ timers' = timers /\ debounceTimer' = debounceTimer
          /\ runs' = runs]_vars

\* Watch has taken an error while a change was pending and the timer armed,
\* and is in its loop with both as they were
C30_Witness ==
    /\ handled = "error"
    /\ wpc = "select" /\ halt = "no"
    /\ changedFiles # {}
    /\ \E t \in timers : t.id = debounceTimer


\* a goroutine of a timer starts its call of RunTests in this step
Dispatch == \E g \in TimerGoroutines : runs[g].pc = "idle" /\ runs'[g].pc = "read"

StopReturned == \E c \in Stoppers : stopper[c] = "returned"

\* C31: no call of Stop panics, whichever goroutine makes it and whether it
\* is the first or the second
C31_StopTwice ==
    \A c \in Stoppers : stopper[c] # "panic"

\* C32: once a call of Stop has returned, no timer dispatches a test run
C32_StopCancelsTimer ==
    [][StopReturned => ~ Dispatch]_vars

\* C35: once the stop channel or the notification source is closed, Watch
\* returns, unless the process has ended before
C35_WatchTerminates ==
    (stopChan = "closed" \/ stop = "closed") ~> (wpc = "returned" \/ halt # "no")

\* Watch has returned nil after Stop, while it was still running the tests
\* of the startup when Stop was called
C35_Witness ==
    /\ wpc = "returned"
    /\ halt = "no"
    /\ StopReturned
    /\ received > 0


TimerIds(ts) == { t.id : t \in ts }

\* C34: never two timers armed; a step of Watch that arms a timer leaves that
\* timer alone armed, under an identity no timer had before; the timer that
\* fires is no longer armed, and it starts one run
C34_OneTimer ==
    /\ [](Cardinality(timers) <= 1)
    /\ [][ /\ (TimerIds(timers') \ TimerIds(timers) # {}) =>
                /\ TimerIds(timers') = { debounceTimer' }
                /\ debounceTimer' > debounceTimer
                /\ \A t \in timers' : t.left = debounceDelay
           /\ Dispatch =>
                /\ timers' = {}
                /\ Cardinality(timers) = 1
                /\ Cardinality({ g \in TimerGoroutines : runs'[g] # runs[g] }) = 1
           /\ TimerIds(timers') \subseteq TimerIds(timers) \cup { debounceTimer' } ]_vars

\* C34 witness: two qualifying events in one window, the second of which has
\* stopped the timer of the first: the one timer armed is the second's
C34_Witness ==
    /\ burst = { FileAX, FileBY }
    /\ TimerIds(timers) = { debounceTimer }
    /\ debounceTimer >= 2
    /\ \E g \in TimerGoroutines : runs[g].pc # "idle"


\* C36: a call of PollingWatcher.Close that has closed w.stop returns, unless
\* the process ends before
C36_CloseReturns ==
    \A c \in Closers :
        (variant = "polling" /\ closer[c] = "wait") ~> (closer[c] = "returned" \/ Crashed)


\* checkFiles is at a send and the consumer is not at its receive
PollBlockedInSend == variant = "polling" /\ loop.pc = "send" /\ caller.pc # "idle"

\* the consumer is at the Lock of Add or Remove and checkFiles has the mutex
ConsumerBlockedInLock == caller.pc = "lock" /\ mutex = "poll"

\* C37: the polling goroutine and the consumer that reacts to its events with
\* Add and Remove are never both blocked, each waiting for the other
C37_NoDeadlock ==
    ~ (PollBlockedInSend /\ ConsumerBlockedInLock)


\* C38: the forwarding goroutine of an EventWatcher never sends on a channel
\* that Close has closed, and once Close has returned it is not left in a send
C38_NoSendOnClosed ==
    variant = "event" =>
        /\ loop.pc # "panic"
        /\ (\E c \in Closers : closer[c] = "returned") => loop.pc # "send"


\* C39: when Watch has walked the tree without an error, the watch root is
\* registered, in whatever form the root was given
C39_RootRegistered ==
    wpc \notin { "new", "failed" } => watchDir \in registered


\* a call of Add or Remove on the PollingWatcher returns in this step
Returns(op) ==
    variant = "polling" /\ caller.pc = "lock" /\ caller.op = op /\ caller'.pc = "idle"

\* C40: Add of a name that os.Stat fails for returns the error and Remove of a
\* name that is not watched returns an error, both with the watch list as it
\* was; the calls that succeed change the entry of their name alone; and what
\* checkFiles visits or sends is in the watch list, so that no event for a
\* name follows the return of its Remove until Add puts the name back
C40_RegistrationErrors ==
    /\ [](variant = "polling" =>
            /\ loop.pc = "send" => watchList[loop.send.Name] # NotWatched
            /\ \A n \in loop.todo : watchList[n] # NotWatched)
    /\ [][ /\ Returns("Add") =>
                IF fsys[caller.name] \in StatValues
                THEN /\ caller'.ret = "nil"
                     /\ watchList' = [ watchList EXCEPT ![caller.name] = fsys[caller.name] ]
                ELSE /\ caller'.ret = "err"
                     /\ watchList' = watchList
           /\ Returns("Remove") =>
                IF watchList[caller.name] # NotWatched
                THEN /\ caller'.ret = "nil"
                     /\ watchList' = [ watchList EXCEPT ![caller.name] = NotWatched ]
                     /\ loop.pc \notin { "range", "send" }
                ELSE /\ caller'.ret = "err"
                     /\ watchList' = watchList ]_vars

\* C40 witness: /r/a was added, has changed and was removed by Remove before
\* a tick saw the change; the tick after that visits nothing, and Add of the
\* file, now unreadable, has returned an error and tracks nothing
C40_Witness ==
    /\ variant = "polling"
    /\ history = << [ Name |-> "/r/a", Op |-> "Add" ], [ Name |-> "/r/a", Op |-> "Change" ],
                    [ Name |-> "/r/a", Op |-> "Change" ] >>
    /\ fsys["/r/a"] = "denied"
    /\ watchList = [ n \in WatchNames |-> NotWatched ]
    /\ caller = [ CallerIdle EXCEPT !.ret = "err" ]
    /\ loop.pc = "range" /\ loop.todo = {}

====
